---- MODULE Spec2Model ----
(***************************************************************************)
(* Model of the socket handler of CHAT-MAIL-BE (src/unnamed/part_006):     *)
(* the handshake, the presence map onlineUsers, the active-call registry   *)
(* activeCalls, the persisted Call, Message and Group records, the call    *)
(* handlers, the message and group handlers and the signalling relays.     *)
(* An async handler is a                                                   *)
(* task: it runs a synchronous segment, suspends at an await on the store, *)
(* the store applies its request, and the handler resumes later.  Other    *)
(* handlers, timers and disconnects run between the segments.              *)
(***************************************************************************)
EXTENDS Naturals, Integers, FiniteSets, Sequences, Bags, TLC

\* ---------------------------------------------------------------- bounds
MaxSockets == 3   \* connections opened in one behaviour (socket ids are never reused)
MaxCalls == 2     \* Call records created in one behaviour
MaxTasks == 1     \* call handlers suspended at an await at the same time
MaxMessages == 1  \* Message records created in one behaviour
MaxMsgTasks == 2  \* message handlers suspended at an await at the same time
MaxVersion == 3   \* array updates (reactions, edit history, deletion markers) in one behaviour
MaxTime == 5      \* the clock stops after MaxTime units of 15 minutes

Users == {"A", "B", "C"}
Sockets == 1..MaxSockets
CallIds == 1..MaxCalls

NoSocket == 0
NoCall == 0
NoUser == "none"
NoTime == -1
Null == "null"

VARIABLES
  conns,        \* socket id -> user of the connection, for every socket opened so far
  open,         \* the socket ids whose connection is open
  onlineUsers,  \* the Map onlineUsers: user -> socket id, NoSocket when absent
  activeCalls,  \* the Map activeCalls: call id -> session
  calls,        \* the Call collection of the store: sequence of records, index = _id
  timers,       \* the pending ring timeouts (closures of setTimeout)
  tasks,        \* bag of suspended handlers and of store requests in flight
  emitted,      \* the events emitted by the last step
  last,         \* the last step: the event received or the continuation that ran
  now,          \* Date.now(), in units of 15 minutes
  messages,     \* the Message collection of the store: sequence of records, index = _id
  groups,       \* the Group collection of the store: members, admins, settings, lastMessage
  rooms         \* the socket.io rooms group_<id>: the connections that joined

Groups == {"G"}
NoGroup == "none"

presenceVars == <<conns, open, onlineUsers>>
callVars == <<activeCalls, calls, timers>>
groupVars == <<groups, rooms>>
vars == <<conns, open, onlineUsers, activeCalls, calls, timers, tasks, emitted, last, now, messages,
          groups, rooms>>

\* ---------------------------------------------------------------- helpers
NoMessage == 0

\* the Group collection at the start: A created G and added B; the schema default of
\* settings.onlyAdminsCanPost is false, and no message was sent yet
InitGroups ==
  [g \in Groups |-> [createdBy |-> "A", members |-> {"A", "B"}, admins |-> {"A"},
                     onlyAdminsCanPost |-> FALSE, lastMessage |-> NoMessage]]

\* one emitted event: the target connection, the event name, and of its payload the
\* callId and the reason (call events), the message id and the status (message events)
EmitR(to, ev, c, reason) ==
  [to |-> to, ev |-> ev, callId |-> c, reason |-> reason, msgId |-> NoMessage, status |-> Null]
Emit(to, ev, c) == EmitR(to, ev, c, Null)

\* io.to(socketId).emit(...) after `if (socketId)`: nothing when the lookup was absent
EmitIfR(to, ev, c, reason) == IF to = NoSocket THEN {} ELSE {EmitR(to, ev, c, reason)}
EmitIf(to, ev, c) == EmitIfR(to, ev, c, Null)

\* an event whose payload is a message, or names one: the payload is serialised when
\* emit is called, so it carries the status the document has at that moment
EmitM(to, ev, m, status) ==
  [to |-> to, ev |-> ev, callId |-> NoCall, reason |-> Null, msgId |-> m, status |-> status]
EmitIfM(to, ev, m, status) == IF to = NoSocket THEN {} ELSE {EmitM(to, ev, m, status)}

\* socket.broadcast.emit: every open connection except the emitting one
Broadcast(s, ev) == {Emit(t, ev, NoCall) : t \in open \ {s}}

\* callData.participants.includes(u)
Includes(participants, u) == \E i \in 1..Len(participants) : participants[i] = u

\* participants.find(id => id !== u): the first element different from u, undefined if none
FindOther(participants, u) ==
  IF participants[1] # u THEN participants[1]
  ELSE IF participants[2] # u THEN participants[2]
  ELSE NoUser

\* onlineUsers.get(u)
GetOnline(u) == IF u \in Users THEN onlineUsers[u] ELSE NoSocket

\* Call.findByIdAndUpdate(id, w): $set of the fields of w
ApplyUpdate(rec, w) == [f \in DOMAIN rec |-> IF f \in DOMAIN w THEN w[f] ELSE rec[f]]

\* new Call({caller, receiver, status: 'ringing'}) with the schema defaults
NewCall(caller, receiver) ==
  [caller |-> caller, receiver |-> receiver, status |-> "ringing",
   startTime |-> NoTime, endTime |-> NoTime, duration |-> 0,
   endedBy |-> NoUser, endReason |-> Null]

Task(kind, pc, s, c, r, rs, w) ==
  [kind |-> kind, pc |-> pc, sock |-> s, callId |-> c, recv |-> r, rsock |-> rs, w |-> w]

NoWrite == [none |-> TRUE]

\* Date.now() counts milliseconds; one unit of the clock `now` is fifteen minutes
msPerTick == 900000

\* callSchema.pre('save'): the duration in whole seconds, once both times are set
PreSave(rec) ==
  IF rec.startTime # NoTime /\ rec.endTime # NoTime
  THEN [rec EXCEPT !.duration = ((rec.endTime - rec.startTime) * msPerTick) \div 1000]
  ELSE rec

\* the label of a step: an inbound event (ev = "event"), a store request being applied
\* (ev = "store"), a handler continuing after an await (ev = "resume", "notify"), a timer (ev = "timer")
Step(ev, kind, s, c, r) == [ev |-> ev, kind |-> kind, sock |-> s, callId |-> c, recv |-> r]
TaskStep(ev, t) == Step(ev, t.kind, t.sock, t.callId, t.recv)

HandlerKinds == {"call:initiate", "call:accept", "call:reject", "call:end", "call:cancel"}

\* the handlers of inbound events that are suspended
Suspended == {t \in BagToSet(tasks) : t.kind \in HandlerKinds}
NumSuspended == BagCardinality([t \in Suspended |-> tasks[t]])
CanStart == NumSuspended < MaxTasks

Add(t) == tasks (+) SetToBag({t})
Move(t, u) == (tasks (-) SetToBag({t})) (+) SetToBag({u})
Remove(t) == tasks (-) SetToBag({t})

\* ---------------------------------------------------------------- initial state
Init ==
  /\ conns = << >>
  /\ open = {}
  /\ onlineUsers = [u \in Users |-> NoSocket]
  /\ activeCalls = << >>
  /\ calls = << >>
  /\ timers = {}
  /\ tasks = EmptyBag
  /\ emitted = {}
  /\ last = Step("init", Null, NoSocket, NoCall, NoUser)
  /\ now = 0
  /\ messages = << >>
  /\ groups = InitGroups
  /\ rooms = [g \in Groups |-> {}]

\* ---------------------------------------------------------------- connection lifecycle
\* io.on('connection'): a connection that passed the authentication middleware
Connect(u) ==
  /\ Len(conns) < MaxSockets
  /\ LET s == Len(conns) + 1 IN
       /\ conns' = Append(conns, u)
       /\ open' = open \cup {s}
       /\ onlineUsers' = [onlineUsers EXCEPT ![u] = s]
       /\ emitted' = {Emit(s, "users:online", NoCall)} \cup Broadcast(s, "user:online")
  /\ last' = Step("event", "connect", Len(conns) + 1, NoCall, u)
  /\ UNCHANGED <<callVars, tasks, now, groupVars, messages>>

\* ---------------------------------------------------------------- handshake
\* the user of a credential that names no stored user
UnknownUser == "Z"

\* socket.handshake.auth.token: absent, not verifiable with JWT_SECRET, or valid for the
\* userId it was signed for
Credentials ==
  {[token |-> "none", userId |-> NoUser], [token |-> "forged", userId |-> "A"]}
    \cup {[token |-> "valid", userId |-> u] : u \in Users \cup {UnknownUser}}

\* mutation of the middleware: the token is decoded without verifying its signature
AuthenticateUnverified(cred) ==
  IF cred.token = "none" THEN NoUser
  ELSE IF cred.userId \notin Users THEN NoUser
  ELSE cred.userId

\* the middleware of io.use: the user the connection is accepted for, NoUser when
\* next(new Error(...)) refuses it
Authenticate(cred) ==
  IF cred.token = "none" THEN NoUser
  ELSE IF cred.token # "valid" THEN NoUser
  ELSE IF cred.userId \notin Users THEN NoUser
  ELSE cred.userId

\* a refused connection: the 'connection' callback does not run, so the socket gets no
\* presence entry and no handler
Refuse ==
  /\ Len(conns) < MaxSockets
  /\ conns' = Append(conns, NoUser)
  /\ emitted' = {}
  /\ last' = Step("event", "handshake", Len(conns) + 1, NoCall, NoUser)
  /\ UNCHANGED <<open, onlineUsers, callVars, tasks, now, groupVars, messages>>

Handshake(cred) ==
  IF Authenticate(cred) = NoUser THEN Refuse ELSE Connect(Authenticate(cred))

\* mutation of the disconnect loop: only the calls that the user initiated are ended
EndedByDisconnectCallerOnly(u) == {c \in DOMAIN activeCalls : activeCalls[c].participants[1] = u}

\* socket.on('disconnect')
EndedByDisconnect(u) == {c \in DOMAIN activeCalls : Includes(activeCalls[c].participants, u)}

DisconnectWrite(c) ==
  Task("ff", "store", NoSocket, c, NoUser, NoSocket,
       [status |-> "ended", endReason |-> "failed", endTime |-> now])

Disconnect(s) ==
  /\ s \in open
  /\ LET u == conns[s]
         gone == EndedByDisconnect(u) IN
       /\ emitted' =
            UNION {EmitIfR(GetOnline(FindOther(activeCalls[c].participants, u)), "call:ended", c, "disconnected") : c \in gone}
            \cup Broadcast(s, "user:offline")
       /\ tasks' = tasks (+) SetToBag({DisconnectWrite(c) : c \in gone})
       /\ activeCalls' = [c \in DOMAIN activeCalls \ gone |-> activeCalls[c]]
       /\ onlineUsers' = [onlineUsers EXCEPT ![u] = NoSocket]
       /\ open' = open \ {s}
  /\ rooms' = [g \in Groups |-> rooms[g] \ {s}]
  /\ last' = Step("event", "disconnect", s, NoCall, conns[s])
  /\ UNCHANGED <<conns, calls, timers, now, groups, messages>>

\* ---------------------------------------------------------------- the store
\* The requests in flight are applied in any order: the driver sends them over a pool
\* of connections, and the handler that awaits one resumes at some later turn of the
\* event loop.
\* Call.create(...) reaches the store: the record exists, the handler is not resumed yet
StoreCreate(t) ==
  /\ BagIn(t, tasks)
  /\ t.kind = "call:initiate" /\ t.pc = "store"
  /\ calls' = Append(calls, PreSave(NewCall(conns[t.sock], t.recv)))
  /\ tasks' = Move(t, [t EXCEPT !.pc = "resume", !.callId = Len(calls) + 1])
  /\ emitted' = {}
  /\ last' = Step("store", t.kind, t.sock, Len(calls) + 1, t.recv)
  /\ UNCHANGED <<presenceVars, activeCalls, timers, now, groupVars, messages>>

\* Call.findByIdAndUpdate(...) reaches the store; a request sent with .exec() and not
\* awaited (disconnect) has no handler to resume
StoreUpdate(t) ==
  /\ BagIn(t, tasks)
  /\ t.kind # "call:initiate" /\ t.pc = "store"
  /\ calls' = [calls EXCEPT ![t.callId] = ApplyUpdate(@, t.w)]
  /\ tasks' = IF t.kind = "ff" THEN Remove(t) ELSE Move(t, [t EXCEPT !.pc = "resume"])
  /\ emitted' = {}
  /\ last' = TaskStep("store", t)
  /\ UNCHANGED <<presenceVars, activeCalls, timers, now, groupVars, messages>>

\* a Call request fails in the store. In a handler the await throws into its try/catch:
\* call:error to the connection. The ring-timeout callback has no try, and the promise of
\* the disconnect's .exec() has no catch: the rejection is unhandled, and with no
\* 'unhandledRejection' listener the runtime either ends the process (every connection
\* closes, the registries are gone) or only warns, depending on its version and flags
StoreFail(t) ==
  /\ BagIn(t, tasks)
  /\ t.pc = "store" /\ t.kind \in HandlerKinds \cup {"timeout", "ff"}
  /\ IF t.kind \in HandlerKinds
       THEN /\ emitted' = {Emit(t.sock, "call:error", NoCall)}
            /\ tasks' = Remove(t)
            /\ last' = TaskStep("caught", t)
            /\ UNCHANGED <<presenceVars, callVars, rooms>>
       ELSE /\ emitted' = {}
            /\ last' = TaskStep("uncaught", t)
            /\ UNCHANGED <<conns, calls>>
            /\ \E exits \in BOOLEAN :
                 IF exits
                   THEN /\ open' = {}
                        /\ onlineUsers' = [u \in Users |-> NoSocket]
                        /\ activeCalls' = << >>
                        /\ timers' = {}
                        /\ tasks' = EmptyBag
                        /\ rooms' = [g \in Groups |-> {}]
                   ELSE /\ tasks' = Remove(t)
                        /\ UNCHANGED <<open, onlineUsers, activeCalls, timers, rooms>>
  /\ UNCHANGED <<now, groups, messages>>

\* ---------------------------------------------------------------- call:initiate
Session(caller, receiver) ==
  [status |-> "ringing", caller |-> caller, receiver |-> receiver,
   participants |-> <<caller, receiver>>]

\* mutation of the busy check: only the caller of a session counts as busy
IsBusyCallerOnly(r) == \E c \in DOMAIN activeCalls : activeCalls[c].participants[1] = r

\* the loop `for (const [callId, callData] of activeCalls)` of call:initiate
IsBusy(r) == \E c \in DOMAIN activeCalls : Includes(activeCalls[c].participants, r)

PendingCreates == BagCardinality([t \in {x \in Suspended : x.kind = "call:initiate" /\ x.pc = "store"} |-> tasks[t]])

\* up to the first await: the offline check, the busy check, then User.findById and Call.create
CallInitiate(s, r) ==
  /\ s \in open
  /\ IF GetOnline(r) = NoSocket \/ IsBusy(r)
       THEN /\ emitted' = {Emit(s, "call:error", NoCall)}
            /\ UNCHANGED tasks
       ELSE /\ CanStart
            /\ Len(calls) + PendingCreates < MaxCalls
            /\ tasks' = Add(Task("call:initiate", "store", s, NoCall, r, GetOnline(r), NoWrite))
            /\ emitted' = {}
  /\ last' = Step("event", "call:initiate", s, NoCall, r)
  /\ UNCHANGED <<presenceVars, callVars, now, groupVars, messages>>

\* after `await Call.create`: activeCalls.set, the two notifications, setTimeout
CallInitiateResume(t) ==
  /\ BagIn(t, tasks)
  /\ t.kind = "call:initiate" /\ t.pc = "resume"
  /\ activeCalls' = (t.callId :> Session(conns[t.sock], t.recv)) @@ activeCalls
  /\ emitted' = {Emit(t.rsock, "call:incoming", t.callId), Emit(t.sock, "call:initiated", t.callId)}
  /\ timers' = timers \cup {[callId |-> t.callId, sock |-> t.sock, rsock |-> t.rsock]}
  /\ tasks' = Remove(t)
  /\ last' = TaskStep("resume", t)
  /\ UNCHANGED <<presenceVars, calls, now, groupVars, messages>>

\* ---------------------------------------------------------------- ring timeout
\* the callback of setTimeout(..., 30000), up to its await
TimeoutFire(tm) ==
  /\ tm \in timers
  /\ timers' = timers \ {tm}
  /\ IF tm.callId \in DOMAIN activeCalls /\ activeCalls[tm.callId].status = "ringing"
       THEN tasks' = Add(Task("timeout", "store", tm.sock, tm.callId, NoUser, tm.rsock,
                              [status |-> "missed", endReason |-> "missed"]))
       ELSE UNCHANGED tasks
  /\ emitted' = {}
  /\ last' = Step("timer", "timeout", tm.sock, tm.callId, NoUser)
  /\ UNCHANGED <<presenceVars, activeCalls, calls, now, groupVars, messages>>

Delete(c) == [d \in DOMAIN activeCalls \ {c} |-> activeCalls[d]]

\* mutation of the timeout callback: the receiver is not notified
TimeoutResumeCallerOnly(t) ==
  /\ BagIn(t, tasks)
  /\ t.kind = "timeout" /\ t.pc = "resume"
  /\ activeCalls' = [d \in DOMAIN activeCalls \ {t.callId} |-> activeCalls[d]]
  /\ emitted' = {Emit(t.sock, "call:missed", t.callId)}
  /\ tasks' = Remove(t)
  /\ last' = TaskStep("resume", t)
  /\ UNCHANGED <<presenceVars, calls, timers, now, groupVars, messages>>

\* the callback after `await Call.findByIdAndUpdate`
TimeoutResume(t) ==
  /\ BagIn(t, tasks)
  /\ t.kind = "timeout" /\ t.pc = "resume"
  /\ activeCalls' = Delete(t.callId)
  /\ emitted' = {Emit(t.sock, "call:missed", t.callId), Emit(t.rsock, "call:missed", t.callId)}
  /\ tasks' = Remove(t)
  /\ last' = TaskStep("resume", t)
  /\ UNCHANGED <<presenceVars, calls, timers, now, groupVars, messages>>

\* ---------------------------------------------------------------- call:accept
CallAccept(s, c) ==
  /\ s \in open
  /\ IF c \notin DOMAIN activeCalls
       THEN /\ emitted' = {Emit(s, "call:error", NoCall)}
            /\ UNCHANGED tasks
       ELSE /\ CanStart
            /\ tasks' = Add(Task("call:accept", "store", s, c, NoUser, NoSocket,
                                 [status |-> "ongoing", startTime |-> now]))
            /\ emitted' = {}
  /\ last' = Step("event", "call:accept", s, c, NoUser)
  /\ UNCHANGED <<presenceVars, callVars, now, groupVars, messages>>

\* `activeCall.call.status = 'ongoing'` on the object read before the await, then
\* `await User.findById`
CallAcceptResume(t) ==
  /\ BagIn(t, tasks)
  /\ t.kind = "call:accept" /\ t.pc = "resume"
  /\ activeCalls' = IF t.callId \in DOMAIN activeCalls
                      THEN [activeCalls EXCEPT ![t.callId].status = "ongoing"]
                      ELSE activeCalls
  /\ tasks' = Move(t, [t EXCEPT !.pc = "read"])
  /\ emitted' = {}
  /\ last' = TaskStep("resume", t)
  /\ UNCHANGED <<presenceVars, calls, timers, now, groupVars, messages>>

\* mutation of the notification of call:accept: call:accepted goes to the accepting
\* connection instead of the caller
CallAcceptNotifySelf(t) ==
  /\ BagIn(t, tasks)
  /\ t.kind = "call:accept" /\ t.pc = "read"
  /\ emitted' = {Emit(t.sock, "call:accepted", t.callId), Emit(t.sock, "call:started", t.callId)}
  /\ tasks' = Remove(t)
  /\ last' = TaskStep("notify", t)
  /\ UNCHANGED <<presenceVars, callVars, now, groupVars, messages>>

\* after `await User.findById`: notify the caller and the accepting connection
CallAcceptNotify(t) ==
  /\ BagIn(t, tasks)
  /\ t.kind = "call:accept" /\ t.pc = "read"
  /\ emitted' = EmitIf(GetOnline(calls[t.callId].caller), "call:accepted", t.callId)
                  \cup {Emit(t.sock, "call:started", t.callId)}
  /\ tasks' = Remove(t)
  /\ last' = TaskStep("notify", t)
  /\ UNCHANGED <<presenceVars, callVars, now, groupVars, messages>>

\* ---------------------------------------------------------------- call:reject, call:end, call:cancel
\* the segment up to the await, common to the three handlers: `if (!activeCall) return`
StartTerminal(kind, s, c, w) ==
  /\ s \in open
  /\ IF c \notin DOMAIN activeCalls
       THEN UNCHANGED tasks
       ELSE /\ CanStart
            /\ tasks' = Add(Task(kind, "store", s, c, NoUser, NoSocket, w))
  /\ emitted' = {}
  /\ last' = Step("event", kind, s, c, NoUser)
  /\ UNCHANGED <<presenceVars, callVars, now, groupVars, messages>>

CallReject(s, c) ==
  StartTerminal("call:reject", s, c,
                [status |-> "rejected", endReason |-> "rejected", endTime |-> now])

CallRejectResume(t) ==
  /\ BagIn(t, tasks)
  /\ t.kind = "call:reject" /\ t.pc = "resume"
  /\ emitted' = EmitIf(GetOnline(calls[t.callId].caller), "call:rejected", t.callId)
  /\ activeCalls' = Delete(t.callId)
  /\ tasks' = Remove(t)
  /\ last' = TaskStep("resume", t)
  /\ UNCHANGED <<presenceVars, calls, timers, now, groupVars, messages>>

CallEnd(s, c) ==
  StartTerminal("call:end", s, c,
                [status |-> "ended", endReason |-> "completed", endTime |-> now,
                 endedBy |-> IF s \in open THEN conns[s] ELSE NoUser])

\* mutation of call:end: the session stays in the registry
CallEndResumeKeepSession(t) ==
  /\ BagIn(t, tasks)
  /\ t.kind = "call:end" /\ t.pc = "resume"
  /\ LET participants == <<calls[t.callId].caller, calls[t.callId].receiver>>
         otherUserId == FindOther(participants, conns[t.sock]) IN
       emitted' = EmitIf(GetOnline(otherUserId), "call:ended", t.callId)
  /\ tasks' = Remove(t)
  /\ last' = TaskStep("resume", t)
  /\ UNCHANGED <<presenceVars, callVars, now, groupVars, messages>>

CallEndResume(t) ==
  /\ BagIn(t, tasks)
  /\ t.kind = "call:end" /\ t.pc = "resume"
  /\ LET participants == <<calls[t.callId].caller, calls[t.callId].receiver>>
         otherUserId == FindOther(participants, conns[t.sock]) IN
       emitted' = EmitIf(GetOnline(otherUserId), "call:ended", t.callId)
  /\ activeCalls' = Delete(t.callId)
  /\ tasks' = Remove(t)
  /\ last' = TaskStep("resume", t)
  /\ UNCHANGED <<presenceVars, calls, timers, now, groupVars, messages>>

CallCancel(s, c) ==
  StartTerminal("call:cancel", s, c,
                [status |-> "ended", endReason |-> "cancelled", endTime |-> now])

CallCancelResume(t) ==
  /\ BagIn(t, tasks)
  /\ t.kind = "call:cancel" /\ t.pc = "resume"
  /\ emitted' = EmitIf(GetOnline(calls[t.callId].receiver), "call:cancelled", t.callId)
  /\ activeCalls' = Delete(t.callId)
  /\ tasks' = Remove(t)
  /\ last' = TaskStep("resume", t)
  /\ UNCHANGED <<presenceVars, calls, timers, now, groupVars, messages>>


\* ================================================================ messages
\* the time windows of message:edit and message:delete, in the unit of `now` (15 minutes)
fifteenMinutes == 1
oneHour == 4

Emojis == {"thumbsup", "heart"}
Contents == {"hi", "new"}
Placeholder == "This message was deleted"
NoVersion == -1

\* group.members of the stored group, as user ids; a group that does not exist has none
GroupMembers(g) == IF g \in Groups THEN groups[g].members ELSE {}

MessageIds == 1..MaxMessages

\* new Message({...}) with the schema defaults; timestamps: true sets createdAt
NewMessage(sender, receiver, kind, content) ==
  [sender |-> sender, receiver |-> receiver, conversationType |-> kind, content |-> content,
   createdAt |-> now, isEdited |-> FALSE, editedAt |-> NoTime, editHistory |-> << >>,
   isDeleted |-> FALSE, deletedForEveryone |-> FALSE, deletedAt |-> NoTime, deletedBy |-> << >>,
   status |-> "sent", readAt |-> NoTime, reactions |-> << >>, v |-> 0]

MsgKinds == {"message:send", "group:message:send", "message:react", "message:edit", "message:delete",
             "message:read", "messages:read", "group:join"}

\* the message handlers that are suspended
MsgSuspended == {t \in BagToSet(tasks) : t.kind \in MsgKinds}
NumMsgSuspended == BagCardinality([t \in MsgSuspended |-> tasks[t]])
CanStartMsg == NumMsgSuspended < MaxMsgTasks

PendingMsgCreates ==
  BagCardinality([t \in {x \in MsgSuspended : \/ x.pc = "create"
                                               \/ (x.kind = "group:message:send" /\ x.pc = "findGroup")}
                    |-> tasks[t]])
CanCreate == Len(messages) + PendingMsgCreates < MaxMessages

RECURSIVE SumVersions(_)
SumVersions(n) == IF n = 0 THEN 0 ELSE messages[n].v + SumVersions(n - 1)

\* bound on the array updates that are started
CanUpdate == SumVersions(Len(messages)) + NumMsgSuspended < MaxVersion

\* a suspended message handler: its locals are in w
MsgTask(kind, pc, s, w) == Task(kind, pc, s, NoCall, NoUser, NoSocket, w)

\* the clock advances
Tick ==
  /\ now < MaxTime
  /\ now' = now + 1
  /\ emitted' = {}
  /\ last' = Step("clock", Null, NoSocket, NoCall, NoUser)
  /\ UNCHANGED <<presenceVars, callVars, tasks, messages, groupVars>>

\* ---------------------------------------------------------------- the store: messages
\* Message.create(...) reaches the store
StoreCreateMessage(t) ==
  /\ BagIn(t, tasks)
  /\ t.pc = "create"
  /\ messages' = Append(messages, NewMessage(conns[t.sock], t.w.receiver, t.w.kind, t.w.content))
  /\ tasks' = Move(t, [t EXCEPT !.pc = "created", !.w = [@ EXCEPT !.msgId = Len(messages) + 1]])
  /\ emitted' = {}
  /\ last' = TaskStep("store", t)
  /\ UNCHANGED <<presenceVars, callVars, now, groupVars>>

\* the update that message.save() sends: $set of the modified paths, $push on an array
\* that was pushed to, and for an array that was assigned the whole array under the
\* version the document was read with; any array update increments the version
SavedDoc(doc, w) ==
  [f \in DOMAIN doc |->
     IF f \in DOMAIN w.set THEN w.set[f]
     ELSE IF f \in DOMAIN w.push THEN Append(doc[f], w.push[f])
     ELSE IF f = "v" /\ w.inc THEN doc.v + 1
     ELSE doc[f]]

\* mutation of the store: a save is applied whatever version the document has
VersionConflictIgnored(doc, w) == FALSE

VersionConflict(doc, w) == w.where # NoVersion /\ doc.v # w.where

\* message.save() reaches the store; a version conflict makes save() throw
StoreSave(t) ==
  /\ BagIn(t, tasks)
  /\ t.pc = "save"
  /\ IF VersionConflict(messages[t.w.msgId], t.w)
       THEN /\ tasks' = Move(t, [t EXCEPT !.pc = "failed"])
            /\ UNCHANGED messages
       ELSE /\ tasks' = Move(t, [t EXCEPT !.pc = "saved"])
            /\ messages' = [messages EXCEPT ![t.w.msgId] = SavedDoc(@, t.w)]
  /\ emitted' = {}
  /\ last' = TaskStep("store", t)
  /\ UNCHANGED <<presenceVars, callVars, now, groupVars>>

NoFields == [none |-> TRUE]

\* ---------------------------------------------------------------- message:send
\* up to `await Message.create`
MessageSend(s, r, content) ==
  /\ s \in open
  /\ CanStartMsg /\ CanCreate
  /\ tasks' = Add(MsgTask("message:send", "create", s,
                          [msgId |-> NoMessage, receiver |-> r, kind |-> "direct", content |-> content]))
  /\ emitted' = {}
  /\ last' = Step("event", "message:send", s, NoCall, r)
  /\ UNCHANGED <<presenceVars, callVars, now, groupVars, messages>>

\* after Message.create and the populates: the receiver is looked up, message:receive is
\* emitted with the document as it is, then status is set to delivered and saved; without
\* a presence entry of the receiver message:sent is emitted at once
MessageSendResume(t) ==
  /\ BagIn(t, tasks)
  /\ t.kind = "message:send" /\ t.pc = "created"
  /\ LET receiverSocketId == GetOnline(t.w.receiver)
         m == t.w.msgId IN
       IF receiverSocketId # NoSocket
         THEN /\ emitted' = {EmitM(receiverSocketId, "message:receive", m, "sent")}
              /\ tasks' = Move(t, [t EXCEPT !.pc = "save",
                                     !.w = [msgId |-> m, receiver |-> t.w.receiver,
                                            set |-> [status |-> "delivered"], push |-> NoFields,
                                            where |-> NoVersion, inc |-> FALSE]])
         ELSE /\ emitted' = {EmitM(t.sock, "message:sent", m, "sent")}
              /\ tasks' = Remove(t)
  /\ last' = TaskStep("resume", t)
  /\ UNCHANGED <<presenceVars, callVars, now, groupVars, messages>>

\* mutation of message:send: the confirmation carries the document as it was created
MessageSendDoneStale(t) ==
  /\ BagIn(t, tasks)
  /\ t.kind = "message:send" /\ t.pc \in {"saved", "failed"}
  /\ emitted' = {EmitM(t.sock, "message:sent", t.w.msgId, "sent")}
  /\ tasks' = Remove(t)
  /\ last' = TaskStep("notify", t)
  /\ UNCHANGED <<presenceVars, callVars, now, groupVars, messages>>

\* after `await message.save()`: the confirmation to the sender
MessageSendDone(t) ==
  /\ BagIn(t, tasks)
  /\ t.kind = "message:send" /\ t.pc \in {"saved", "failed"}
  /\ emitted' = IF t.pc = "saved"
                  THEN {EmitM(t.sock, "message:sent", t.w.msgId, "delivered")}
                  ELSE {EmitM(t.sock, "message:error", NoMessage, Null)}
  /\ tasks' = Remove(t)
  /\ last' = TaskStep("notify", t)
  /\ UNCHANGED <<presenceVars, callVars, now, groupVars, messages>>

\* ---------------------------------------------------------------- message:read
\* Message.findByIdAndUpdate(messageId, {status: 'read', readAt: Date.now()}) reaches the
\* store: no document with that id, no change; `found` is the status of the document
\* before the update, which the call returns and the handler does not look at
StoreUpdateMessage(t) ==
  /\ BagIn(t, tasks)
  /\ t.kind = "message:read" /\ t.pc = "update"
  /\ IF t.w.msgId \in DOMAIN messages
       THEN /\ messages' = [messages EXCEPT ![t.w.msgId] = ApplyUpdate(@, t.w.set)]
            /\ tasks' = Move(t, [t EXCEPT !.pc = "updated", !.w.found = messages[t.w.msgId].status])
       ELSE /\ UNCHANGED messages
            /\ tasks' = Move(t, [t EXCEPT !.pc = "updated"])
  /\ emitted' = {}
  /\ last' = TaskStep("store", t)
  /\ UNCHANGED <<presenceVars, callVars, now, groupVars>>

\* up to `await Message.findByIdAndUpdate`
MessageRead(s, m, senderId) ==
  /\ s \in open
  /\ CanStartMsg
  /\ tasks' = Add(MsgTask("message:read", "update", s,
                          [msgId |-> m, senderId |-> senderId, found |-> Null,
                           set |-> [status |-> "read", readAt |-> now]]))
  /\ emitted' = {}
  /\ last' = Step("event", "message:read", s, NoCall, senderId)
  /\ UNCHANGED <<presenceVars, callVars, now, groupVars, messages>>

\* after the update: message:status to the user named as sender, when online
MessageReadDone(t) ==
  /\ BagIn(t, tasks)
  /\ t.kind = "message:read" /\ t.pc = "updated"
  /\ emitted' = EmitIfM(GetOnline(t.w.senderId), "message:status", t.w.msgId, "read")
  /\ tasks' = Remove(t)
  /\ last' = TaskStep("notify", t)
  /\ UNCHANGED <<presenceVars, callVars, now, groupVars, messages>>

\* ---------------------------------------------------------------- messages:read
\* the filter of Message.updateMany: sent by senderId to the user of the connection and
\* not read yet
Unread(senderId, receiver) ==
  {m \in DOMAIN messages : /\ messages[m].sender = senderId
                           /\ messages[m].receiver = receiver
                           /\ messages[m].status # "read"}

\* Message.updateMany(filter, {status: 'read', readAt: Date.now()}) reaches the store
StoreUpdateMany(t) ==
  /\ BagIn(t, tasks)
  /\ t.kind = "messages:read" /\ t.pc = "update"
  /\ LET matched == Unread(t.w.senderId, conns[t.sock]) IN
       /\ messages' = [m \in DOMAIN messages |->
                         IF m \in matched THEN ApplyUpdate(messages[m], t.w.set) ELSE messages[m]]
       /\ tasks' = Move(t, [t EXCEPT !.pc = "updated", !.w.modifiedCount = Cardinality(matched)])
  /\ emitted' = {}
  /\ last' = TaskStep("store", t)
  /\ UNCHANGED <<presenceVars, callVars, now, groupVars>>

\* up to `await Message.updateMany`
MessagesRead(s, senderId) ==
  /\ s \in open
  /\ CanStartMsg
  /\ tasks' = Add(MsgTask("messages:read", "update", s,
                          [senderId |-> senderId, modifiedCount |-> 0,
                           set |-> [status |-> "read", readAt |-> now]]))
  /\ emitted' = {}
  /\ last' = Step("event", "messages:read", s, NoCall, senderId)
  /\ UNCHANGED <<presenceVars, callVars, now, groupVars, messages>>

\* after the update: messages:read to the sender, when online and something was modified
MessagesReadDone(t) ==
  /\ BagIn(t, tasks)
  /\ t.kind = "messages:read" /\ t.pc = "updated"
  /\ emitted' = IF t.w.modifiedCount > 0
                  THEN EmitIfM(GetOnline(t.w.senderId), "messages:read", NoMessage, "read")
                  ELSE {}
  /\ tasks' = Remove(t)
  /\ last' = TaskStep("notify", t)
  /\ UNCHANGED <<presenceVars, callVars, now, groupVars, messages>>

\* mutation of the error report: the error event goes to every open connection
FailBroadcast(t, ev) ==
  /\ emitted' = {EmitM(x, ev, NoMessage, Null) : x \in open \cup {t.sock}}
  /\ tasks' = Remove(t)

\* the handler ends with an error event to its own connection
Fail(t, ev) ==
  /\ emitted' = {EmitM(t.sock, ev, NoMessage, Null)}
  /\ tasks' = Remove(t)

\* ---------------------------------------------------------------- group:message:send
\* up to `await Group.findById`
GroupMessageSend(s, g, content) ==
  /\ s \in open
  /\ CanStartMsg /\ CanCreate
  /\ tasks' = Add(MsgTask("group:message:send", "findGroup", s,
                          [msgId |-> NoMessage, receiver |-> NoUser, kind |-> "group",
                           content |-> content, groupId |-> g, members |-> {}]))
  /\ emitted' = {}
  /\ last' = Step("event", "group:message:send", s, NoCall, NoUser)
  /\ UNCHANGED <<presenceVars, callVars, now, groupVars, messages>>

\* group.isAdmin(userId): a member whose role is admin
IsAdmin(group, u) == u \in group.members /\ u \in group.admins

\* mutation of the posting check: the setting onlyAdminsCanPost is not looked at
MayPostAnyMember(group, u) == u \in group.members

\* the checks of group:message:send on the group it read: a member, and an admin when
\* the group restricts posting to admins
MayPost(group, u) ==
  /\ u \in group.members
  /\ ~(group.onlyAdminsCanPost /\ ~IsAdmin(group, u))

\* after `await Group.findById`: group not found, not a member, only admins can post;
\* otherwise `await Message.create`; the handler keeps the group document it read
GroupMessageSendRead(t) ==
  /\ BagIn(t, tasks)
  /\ t.kind = "group:message:send" /\ t.pc = "findGroup"
  /\ IF t.w.groupId \notin Groups THEN Fail(t, "message:error")
     ELSE IF ~MayPost(groups[t.w.groupId], conns[t.sock]) THEN Fail(t, "message:error")
     ELSE /\ tasks' = Move(t, [t EXCEPT !.pc = "create", !.w.members = groups[t.w.groupId].members])
          /\ emitted' = {}
  /\ last' = TaskStep("resume", t)
  /\ UNCHANGED <<presenceVars, callVars, now, groupVars, messages>>

\* after Message.create and the populate: group.lastMessage = message._id, then
\* `await group.save()`
GroupMessageSendCreated(t) ==
  /\ BagIn(t, tasks)
  /\ t.kind = "group:message:send" /\ t.pc = "created"
  /\ tasks' = Move(t, [t EXCEPT !.pc = "saveGroup"])
  /\ emitted' = {}
  /\ last' = TaskStep("resume", t)
  /\ UNCHANGED <<presenceVars, callVars, now, groupVars, messages>>

\* group.save() reaches the store: $set of lastMessage
StoreSaveGroup(t) ==
  /\ BagIn(t, tasks)
  /\ t.kind = "group:message:send" /\ t.pc = "saveGroup"
  /\ groups' = [groups EXCEPT ![t.w.groupId].lastMessage = t.w.msgId]
  /\ tasks' = Move(t, [t EXCEPT !.pc = "groupSaved"])
  /\ emitted' = {}
  /\ last' = TaskStep("store", t)
  /\ UNCHANGED <<presenceVars, callVars, now, messages, rooms>>

\* mutation of the fan-out: the sender is not left out
OnlineMembersWithSender(members, sender) ==
  {GetOnline(u) : u \in {x \in members : GetOnline(x) # NoSocket}}

\* the connections that group:message:receive is sent to: onlineUsers.get of every
\* member of the group document the handler read, the sender excepted
OnlineMembers(members, sender) ==
  {GetOnline(u) : u \in {x \in members : GetOnline(x) # NoSocket /\ x # sender}}

\* after group.save(): the online members except the sender get group:message:receive,
\* the sender group:message:sent
GroupMessageSendResume(t) ==
  /\ BagIn(t, tasks)
  /\ t.kind = "group:message:send" /\ t.pc = "groupSaved"
  /\ emitted' = {EmitM(to, "group:message:receive", t.w.msgId, "sent") :
                   to \in OnlineMembers(t.w.members, conns[t.sock])}
                \cup {EmitM(t.sock, "group:message:sent", t.w.msgId, "sent")}
  /\ tasks' = Remove(t)
  /\ last' = TaskStep("resume", t)
  /\ UNCHANGED <<presenceVars, callVars, now, groupVars, messages>>

\* ---------------------------------------------------------------- group:join, group:leave
\* up to `await Group.findById`
GroupJoin(s, g) ==
  /\ s \in open
  /\ CanStartMsg
  /\ tasks' = Add(MsgTask("group:join", "findGroup", s, [groupId |-> g]))
  /\ emitted' = {}
  /\ last' = Step("event", "group:join", s, NoCall, NoUser)
  /\ UNCHANGED <<presenceVars, callVars, now, groupVars, messages>>

\* after `await Group.findById`: no group or not a member, message:error; otherwise the
\* connection joins the room and the connections already in it are told
GroupJoinRead(t) ==
  /\ BagIn(t, tasks)
  /\ t.kind = "group:join" /\ t.pc = "findGroup"
  /\ IF t.w.groupId \notin Groups \/ conns[t.sock] \notin GroupMembers(t.w.groupId)
       THEN /\ Fail(t, "message:error")
            /\ UNCHANGED rooms
       ELSE /\ rooms' = IF t.sock \in open
                          THEN [rooms EXCEPT ![t.w.groupId] = @ \cup {t.sock}]
                          ELSE rooms
            /\ emitted' = {EmitM(to, "group:member-joined", NoMessage, Null) :
                             to \in rooms[t.w.groupId] \ {t.sock}}
            /\ tasks' = Remove(t)
  /\ last' = TaskStep("resume", t)
  /\ UNCHANGED <<presenceVars, callVars, now, groups, messages>>

\* group:leave has no await: the connection leaves the room, the others in it are told
GroupLeave(s, g) ==
  /\ s \in open /\ g \in Groups
  /\ rooms' = [rooms EXCEPT ![g] = @ \ {s}]
  /\ emitted' = {EmitM(to, "group:member-left", NoMessage, Null) : to \in rooms[g] \ {s}}
  /\ last' = Step("event", "group:leave", s, NoCall, NoUser)
  /\ UNCHANGED <<presenceVars, callVars, tasks, now, groups, messages>>

\* ---------------------------------------------------------------- the group controller
\* The requests of the HTTP interface that change a group; each is taken as one step,
\* from its Group.findById to its group.save().
\* removeMember: by an admin or by the member; the creator cannot be removed
RemoveMember(actor, g, memberId) ==
  /\ g \in Groups
  /\ IsAdmin(groups[g], actor) \/ memberId = actor
  /\ memberId # groups[g].createdBy
  /\ memberId \in groups[g].members
  /\ groups' = [groups EXCEPT ![g].members = @ \ {memberId}, ![g].admins = @ \ {memberId}]
  /\ emitted' = {}
  /\ last' = Step("http", "removeMember", NoSocket, NoCall, memberId)
  /\ UNCHANGED <<presenceVars, callVars, tasks, now, messages, rooms>>

\* addMembers: by a member (settings.onlyAdminsCanAddMembers is false by default)
AddMembers(actor, g, memberId) ==
  /\ g \in Groups
  /\ actor \in groups[g].members
  /\ memberId \notin groups[g].members
  /\ groups' = [groups EXCEPT ![g].members = @ \cup {memberId}]
  /\ emitted' = {}
  /\ last' = Step("http", "addMembers", NoSocket, NoCall, memberId)
  /\ UNCHANGED <<presenceVars, callVars, tasks, now, messages, rooms>>

\* updateGroup with settings {onlyAdminsCanPost}: by an admin
\* (settings.onlyAdminsCanEditGroupInfo is true by default)
UpdateGroup(actor, g, onlyAdminsCanPost) ==
  /\ g \in Groups
  /\ IsAdmin(groups[g], actor)
  /\ groups[g].onlyAdminsCanPost # onlyAdminsCanPost
  /\ groups' = [groups EXCEPT ![g].onlyAdminsCanPost = onlyAdminsCanPost]
  /\ emitted' = {}
  /\ last' = Step("http", "updateGroup", NoSocket, NoCall, actor)
  /\ UNCHANGED <<presenceVars, callVars, tasks, now, messages, rooms>>

\* ---------------------------------------------------------------- message:react
\* mutation of the reaction update: reacting again with the same emoji does not remove it
ToggleReactionAlwaysAdd(reactions, u, emoji) ==
  Append(SelectSeq(reactions, LAMBDA r : r.userId # u), [userId |-> u, emoji |-> emoji])

\* mutation of the reaction update: the other reactions of the user are kept
ToggleReactionKeepOthers(reactions, u, emoji) ==
  IF \E i \in 1..Len(reactions) : reactions[i].userId = u /\ reactions[i].emoji = emoji
    THEN SelectSeq(reactions, LAMBDA r : ~(r.userId = u /\ r.emoji = emoji))
    ELSE Append(reactions, [userId |-> u, emoji |-> emoji])

\* the reactions array that the handler computes from the one it read
ToggleReaction(reactions, u, emoji) ==
  IF \E i \in 1..Len(reactions) : reactions[i].userId = u /\ reactions[i].emoji = emoji
    THEN SelectSeq(reactions, LAMBDA r : ~(r.userId = u /\ r.emoji = emoji))
    ELSE Append(SelectSeq(reactions, LAMBDA r : r.userId # u), [userId |-> u, emoji |-> emoji])

\* a handler that reads a message first: up to `await Message.findById`
StartOnMessage(kind, s, m, w) ==
  /\ s \in open
  /\ CanStartMsg /\ CanUpdate
  /\ tasks' = Add(MsgTask(kind, "find", s, w))
  /\ emitted' = {}
  /\ last' = Step("event", kind, s, NoCall, NoUser)
  /\ UNCHANGED <<presenceVars, callVars, now, groupVars, messages>>

MessageReact(s, m, emoji) == StartOnMessage("message:react", s, m, [msgId |-> m, emoji |-> emoji])

\* after `await Message.findById`: the array is assigned and save() is called
MessageReactRead(t) ==
  /\ BagIn(t, tasks)
  /\ t.kind = "message:react" /\ t.pc = "find"
  /\ IF t.w.msgId \notin DOMAIN messages
       THEN Fail(t, "reaction:error")
       ELSE LET doc == messages[t.w.msgId] IN
            /\ tasks' = Move(t, [t EXCEPT !.pc = "save",
                                   !.w = [msgId |-> t.w.msgId, emoji |-> t.w.emoji,
                                          sender |-> doc.sender, receiver |-> doc.receiver,
                                          set |-> [reactions |-> ToggleReaction(doc.reactions, conns[t.sock], t.w.emoji)],
                                          push |-> NoFields, where |-> doc.v, inc |-> TRUE]])
            /\ emitted' = {}
  /\ last' = TaskStep("resume", t)
  /\ UNCHANGED <<presenceVars, callVars, now, groupVars, messages>>

\* after `await message.save()` and the populate: message.receiver.toString() throws for
\* a group message, which has no receiver; otherwise sender and receiver are notified
MessageReactDone(t) ==
  /\ BagIn(t, tasks)
  /\ t.kind = "message:react" /\ t.pc \in {"saved", "failed"}
  /\ IF t.pc = "failed" \/ t.w.receiver = NoUser
       THEN emitted' = {EmitM(t.sock, "reaction:error", NoMessage, Null)}
       ELSE emitted' = EmitIfM(GetOnline(t.w.sender), "message:reaction", t.w.msgId, Null)
                         \cup EmitIfM(GetOnline(t.w.receiver), "message:reaction", t.w.msgId, Null)
  /\ tasks' = Remove(t)
  /\ last' = TaskStep("notify", t)
  /\ UNCHANGED <<presenceVars, callVars, now, groupVars, messages>>

\* ---------------------------------------------------------------- message:edit
MessageEdit(s, m, content) == StartOnMessage("message:edit", s, m, [msgId |-> m, content |-> content])

\* after `await Message.findById`: not found, the sender check, the 15 minutes, then the
\* changes; message.receiver.toString() throws for a group message before save()
MessageEditRead(t) ==
  /\ BagIn(t, tasks)
  /\ t.kind = "message:edit" /\ t.pc = "find"
  /\ IF t.w.msgId \notin DOMAIN messages
       THEN Fail(t, "message:error")
       ELSE LET doc == messages[t.w.msgId] IN
            IF doc.sender # conns[t.sock] THEN Fail(t, "message:error")
            ELSE IF now - doc.createdAt > fifteenMinutes THEN Fail(t, "message:error")
            ELSE IF doc.receiver = NoUser THEN Fail(t, "message:error")
            ELSE /\ tasks' = Move(t, [t EXCEPT !.pc = "save",
                                        !.w = [msgId |-> t.w.msgId, receiver |-> doc.receiver,
                                               set |-> [content |-> t.w.content, isEdited |-> TRUE, editedAt |-> now],
                                               push |-> [editHistory |-> doc.content],
                                               where |-> NoVersion, inc |-> TRUE]])
                 /\ emitted' = {}
  /\ last' = TaskStep("resume", t)
  /\ UNCHANGED <<presenceVars, callVars, now, groupVars, messages>>

\* after `await message.save()` and the populates: message:edited to the receiver and to
\* the editing connection
MessageEditDone(t) ==
  /\ BagIn(t, tasks)
  /\ t.kind = "message:edit" /\ t.pc \in {"saved", "failed"}
  /\ IF t.pc = "failed"
       THEN emitted' = {EmitM(t.sock, "message:error", NoMessage, Null)}
       ELSE emitted' = EmitIfM(GetOnline(t.w.receiver), "message:edited", t.w.msgId, Null)
                         \cup {EmitM(t.sock, "message:edited", t.w.msgId, Null)}
  /\ tasks' = Remove(t)
  /\ last' = TaskStep("notify", t)
  /\ UNCHANGED <<presenceVars, callVars, now, groupVars, messages>>

\* ---------------------------------------------------------------- message:delete
DeleteTypes == {"me", "everyone"}

MessageDelete(s, m, deleteType) ==
  StartOnMessage("message:delete", s, m, [msgId |-> m, deleteType |-> deleteType])

\* after `await Message.findById`: not found, the sender check (for both scopes), for
\* scope everyone the hour and message.receiver.toString(), then the changes
MessageDeleteRead(t) ==
  /\ BagIn(t, tasks)
  /\ t.kind = "message:delete" /\ t.pc = "find"
  /\ IF t.w.msgId \notin DOMAIN messages
       THEN Fail(t, "message:error")
       ELSE LET doc == messages[t.w.msgId] IN
            IF doc.sender # conns[t.sock] THEN Fail(t, "message:error")
            ELSE IF t.w.deleteType = "everyone"
              THEN IF now - doc.createdAt > oneHour THEN Fail(t, "message:error")
                   ELSE IF doc.receiver = NoUser THEN Fail(t, "message:error")
                   ELSE /\ tasks' = Move(t, [t EXCEPT !.pc = "save",
                                               !.w = [msgId |-> t.w.msgId, deleteType |-> "everyone",
                                                      receiver |-> doc.receiver,
                                                      set |-> [deletedForEveryone |-> TRUE, isDeleted |-> TRUE,
                                                               deletedAt |-> now, content |-> Placeholder],
                                                      push |-> NoFields, where |-> NoVersion, inc |-> FALSE]])
                        /\ emitted' = {}
              ELSE /\ tasks' = Move(t, [t EXCEPT !.pc = "save",
                                          !.w = [msgId |-> t.w.msgId, deleteType |-> "me",
                                                 receiver |-> doc.receiver,
                                                 set |-> NoFields, push |-> [deletedBy |-> conns[t.sock]],
                                                 where |-> NoVersion, inc |-> TRUE]])
                   /\ emitted' = {}
  /\ last' = TaskStep("resume", t)
  /\ UNCHANGED <<presenceVars, callVars, now, groupVars, messages>>

\* after `await message.save()`: message:deleted to the receiver (scope everyone) and to
\* the deleting connection
MessageDeleteDone(t) ==
  /\ BagIn(t, tasks)
  /\ t.kind = "message:delete" /\ t.pc \in {"saved", "failed"}
  /\ IF t.pc = "failed"
       THEN emitted' = {EmitM(t.sock, "message:error", NoMessage, Null)}
       ELSE emitted' = (IF t.w.deleteType = "everyone"
                          THEN EmitIfM(GetOnline(t.w.receiver), "message:deleted", t.w.msgId, Null)
                          ELSE {})
                         \cup {EmitM(t.sock, "message:deleted", t.w.msgId, Null)}
  /\ tasks' = Remove(t)
  /\ last' = TaskStep("notify", t)
  /\ UNCHANGED <<presenceVars, callVars, now, groupVars, messages>>

\* ---------------------------------------------------------------- webrtc:offer, answer, ice-candidate
\* the signalling data of an inbound event: an offer, an answer or a candidate
SignalData == {"sdp1", "sdp2"}
WebrtcEvents == {"webrtc:offer", "webrtc:answer", "webrtc:ice-candidate"}

\* mutation of the relay: the signalling data is not passed on
RelayPayloadEmpty(to, ev, callId, data, userId) ==
  [to |-> to, ev |-> ev, callId |-> callId, reason |-> Null, msgId |-> NoMessage,
   status |-> Null, data |-> Null, from |-> userId]

\* the object that is emitted: {callId, offer | answer | candidate, and socket.userId
\* under the name callerId | receiverId | senderId}
RelayPayload(to, ev, callId, data, userId) ==
  [to |-> to, ev |-> ev, callId |-> callId, reason |-> Null, msgId |-> NoMessage,
   status |-> Null, data |-> data, from |-> userId]

\* const id = onlineUsers.get(targetId); if (id) io.to(id).emit(ev, ...): no await, no
\* store access, no change of onlineUsers or activeCalls
WebrtcRelay(ev, s, callId, data, targetId) ==
  /\ s \in open
  /\ emitted' = IF GetOnline(targetId) = NoSocket THEN {}
                ELSE {RelayPayload(GetOnline(targetId), ev, callId, data, conns[s])}
  /\ last' = Step("event", ev, s, callId, targetId)
  /\ UNCHANGED <<presenceVars, callVars, tasks, now, groupVars, messages>>

WebrtcOffer(s, callId, offer, receiverId) == WebrtcRelay("webrtc:offer", s, callId, offer, receiverId)
WebrtcAnswer(s, callId, answer, callerId) == WebrtcRelay("webrtc:answer", s, callId, answer, callerId)
WebrtcIceCandidate(s, callId, candidate, targetId) ==
  WebrtcRelay("webrtc:ice-candidate", s, callId, candidate, targetId)

\* the messageId of an inbound event: the id of a Message record, or one id that no record has
EventMessageIds == {m \in MessageIds : m <= Len(messages) + 1} \cup {Len(messages) + 1}

Pending == BagToSet(tasks)

\* the callId of an inbound event: the id of a Call record, or one id that no record has yet
EventCallIds == {c \in CallIds : c <= Len(calls) + 1}

Next ==
  \/ \E cred \in Credentials : Handshake(cred)
  \/ \E s \in Sockets : Disconnect(s)
  \/ \E s \in Sockets, r \in Users : CallInitiate(s, r)
  \/ \E s \in Sockets, c \in EventCallIds : CallAccept(s, c)
  \/ \E s \in Sockets, c \in EventCallIds : CallReject(s, c)
  \/ \E s \in Sockets, c \in EventCallIds : CallEnd(s, c)
  \/ \E s \in Sockets, c \in EventCallIds : CallCancel(s, c)
  \/ \E tm \in timers : TimeoutFire(tm)
  \/ \E t \in Pending : StoreCreate(t)
  \/ \E t \in Pending : StoreUpdate(t)
  \/ \E t \in Pending : CallInitiateResume(t)
  \/ \E t \in Pending : TimeoutResume(t)
  \/ \E t \in Pending : CallAcceptResume(t)
  \/ \E t \in Pending : CallAcceptNotify(t)
  \/ \E t \in Pending : CallRejectResume(t)
  \/ \E t \in Pending : CallEndResume(t)
  \/ \E t \in Pending : CallCancelResume(t)
  \/ Tick
  \/ \E s \in Sockets, r \in Users, content \in Contents : MessageSend(s, r, content)
  \/ \E s \in Sockets, g \in Groups \cup {NoGroup}, content \in Contents : GroupMessageSend(s, g, content)
  \/ \E s \in Sockets, m \in EventMessageIds, emoji \in Emojis : MessageReact(s, m, emoji)
  \/ \E s \in Sockets, m \in EventMessageIds, content \in Contents : MessageEdit(s, m, content)
  \/ \E s \in Sockets, m \in EventMessageIds, deleteType \in DeleteTypes : MessageDelete(s, m, deleteType)
  \/ \E t \in Pending : StoreCreateMessage(t)
  \/ \E t \in Pending : StoreSave(t)
  \/ \E t \in Pending : MessageSendResume(t)
  \/ \E t \in Pending : MessageSendDone(t)
  \/ \E t \in Pending : GroupMessageSendResume(t)
  \/ \E t \in Pending : GroupMessageSendRead(t)
  \/ \E t \in Pending : GroupMessageSendCreated(t)
  \/ \E t \in Pending : StoreSaveGroup(t)
  \/ \E t \in Pending : MessageReactRead(t)
  \/ \E t \in Pending : MessageReactDone(t)
  \/ \E t \in Pending : MessageEditRead(t)
  \/ \E t \in Pending : MessageEditDone(t)
  \/ \E t \in Pending : MessageDeleteRead(t)
  \/ \E t \in Pending : MessageDeleteDone(t)
  \/ \E s \in Sockets, m \in EventMessageIds, senderId \in Users : MessageRead(s, m, senderId)
  \/ \E s \in Sockets, senderId \in Users : MessagesRead(s, senderId)
  \/ \E t \in Pending : StoreUpdateMessage(t)
  \/ \E t \in Pending : StoreUpdateMany(t)
  \/ \E t \in Pending : MessageReadDone(t)
  \/ \E t \in Pending : MessagesReadDone(t)
  \/ \E t \in Pending : StoreFail(t)
  \/ \E s \in Sockets, c \in CallIds, d \in SignalData, u \in Users \cup {UnknownUser} :
       WebrtcOffer(s, c, d, u)
  \/ \E s \in Sockets, c \in CallIds, d \in SignalData, u \in Users \cup {UnknownUser} :
       WebrtcAnswer(s, c, d, u)
  \/ \E s \in Sockets, c \in CallIds, d \in SignalData, u \in Users \cup {UnknownUser} :
       WebrtcIceCandidate(s, c, d, u)
  \/ \E s \in Sockets, g \in Groups \cup {NoGroup} : GroupJoin(s, g)
  \/ \E s \in Sockets, g \in Groups : GroupLeave(s, g)
  \/ \E t \in Pending : GroupJoinRead(t)
  \/ \E actor \in Users, g \in Groups, memberId \in Users : RemoveMember(actor, g, memberId)
  \/ \E actor \in Users, g \in Groups, memberId \in Users : AddMembers(actor, g, memberId)
  \/ \E actor \in Users, g \in Groups, b \in BOOLEAN : UpdateGroup(actor, g, b)

Spec == Init /\ [][Next]_vars

\* ---------------------------------------------------------------- presence only
NextPresence ==
  \/ \E cred \in Credentials : Handshake(cred)
  \/ \E s \in Sockets : Disconnect(s)

SpecPresence == Init /\ [][NextPresence]_vars

\* ---------------------------------------------------------------- calls between connected users
\* the state after the users of `connected` have connected, each once, in this order
Online(connected) ==
  /\ conns = connected
  /\ open = DOMAIN connected
  /\ onlineUsers = [u \in Users |-> IF \E s \in DOMAIN connected : connected[s] = u
                                       THEN CHOOSE s \in DOMAIN connected : connected[s] = u
                                       ELSE NoSocket]
  /\ activeCalls = << >>
  /\ calls = << >>
  /\ timers = {}
  /\ tasks = EmptyBag
  /\ emitted = {}
  /\ last = Step("init", Null, NoSocket, NoCall, NoUser)
  /\ now = 0
  /\ messages = << >>
  /\ groups = InitGroups
  /\ rooms = [g \in Groups |-> {}]

\* A and B are connected, C is offline
InitPair == Online(<<"A", "B">>)

\* one call from call:initiate to its end: once a Call record exists, only the
\* call:initiate events that are refused occur
NextCall ==
  \/ \E s \in Sockets : Disconnect(s)
  \/ \E s \in Sockets, r \in Users : CallInitiate(s, r) /\ (Len(calls) + PendingCreates = 0 \/ tasks' = tasks)
  \/ \E s \in Sockets, c \in EventCallIds : CallAccept(s, c)
  \/ \E s \in Sockets, c \in EventCallIds : CallReject(s, c)
  \/ \E s \in Sockets, c \in EventCallIds : CallEnd(s, c)
  \/ \E s \in Sockets, c \in EventCallIds : CallCancel(s, c)
  \/ \E tm \in timers : TimeoutFire(tm)
  \/ \E t \in Pending : StoreCreate(t)
  \/ \E t \in Pending : StoreUpdate(t)
  \/ \E t \in Pending : CallInitiateResume(t)
  \/ \E t \in Pending : TimeoutResume(t)
  \/ \E t \in Pending : CallAcceptResume(t)
  \/ \E t \in Pending : CallAcceptNotify(t)
  \/ \E t \in Pending : CallRejectResume(t)
  \/ \E t \in Pending : CallEndResume(t)
  \/ \E t \in Pending : CallCancelResume(t)

SpecCall == InitPair /\ [][NextCall]_vars

\* ---------------------------------------------------------------- busy detection
\* A, B and C are connected
InitTrio == Online(<<"A", "B", "C">>)

\* calls are initiated and cut by disconnects; no ring timeout expires
NextBusy ==
  \/ \E s \in Sockets : Disconnect(s)
  \/ \E s \in Sockets, r \in Users : CallInitiate(s, r)
  \/ \E t \in Pending : StoreCreate(t)
  \/ \E t \in Pending : StoreUpdate(t)
  \/ \E t \in Pending : CallInitiateResume(t)

SpecBusy == InitTrio /\ [][NextBusy]_vars

\* ---------------------------------------------------------------- an unanswered call
\* no call:accept, call:reject, call:cancel, call:end and no disconnect occurs; the
\* timers of the event loop expire and the store answers every request
NextRing ==
  \/ \E s \in Sockets, r \in Users : CallInitiate(s, r)
  \/ \E tm \in timers : TimeoutFire(tm)
  \/ \E t \in Pending : StoreCreate(t)
  \/ \E t \in Pending : StoreUpdate(t)
  \/ \E t \in Pending : CallInitiateResume(t)
  \/ \E t \in Pending : TimeoutResume(t)

SpecRing ==
  /\ InitPair
  /\ [][NextRing]_vars
  /\ WF_vars(\E tm \in timers : TimeoutFire(tm))
  /\ WF_vars(\E t \in Pending : StoreCreate(t))
  /\ WF_vars(\E t \in Pending : StoreUpdate(t))
  /\ WF_vars(\E t \in Pending : CallInitiateResume(t))
  /\ WF_vars(\E t \in Pending : TimeoutResume(t))

\* ---------------------------------------------------------------- a call that is answered
\* one call is initiated and accepted; its ring timeout may expire and connections may
\* close at any point
NextAnswer ==
  \/ \E s \in Sockets : Disconnect(s)
  \/ \E s \in Sockets, r \in Users : CallInitiate(s, r) /\ (Len(calls) + PendingCreates = 0 \/ tasks' = tasks)
  \/ \E s \in Sockets, c \in EventCallIds : CallAccept(s, c)
  \/ \E tm \in timers : TimeoutFire(tm)
  \/ \E t \in Pending : StoreCreate(t)
  \/ \E t \in Pending : StoreUpdate(t)
  \/ \E t \in Pending : CallInitiateResume(t)
  \/ \E t \in Pending : TimeoutResume(t)
  \/ \E t \in Pending : CallAcceptResume(t)
  \/ \E t \in Pending : CallAcceptNotify(t)

SpecAnswer == InitPair /\ [][NextAnswer]_vars

\* no handler is suspended and no store request is in flight
Idle == tasks = EmptyBag

\* ---------------------------------------------------------------- reactions
\* A or B sends one direct or group message; A and B react to it, and to a message that
\* does not exist, with handlers that interleave
NextReact ==
  \/ \E s \in Sockets, r \in Users : Idle /\ messages = << >> /\ MessageSend(s, r, "hi")
  \/ \E s \in Sockets, g \in Groups : Idle /\ messages = << >> /\ GroupMessageSend(s, g, "hi")
  \/ \E s \in Sockets, m \in EventMessageIds, emoji \in Emojis : MessageReact(s, m, emoji)
  \/ \E t \in Pending : StoreCreateMessage(t)
  \/ \E t \in Pending : StoreSave(t)
  \/ \E t \in Pending : MessageSendResume(t)
  \/ \E t \in Pending : MessageSendDone(t)
  \/ \E t \in Pending : GroupMessageSendResume(t)
  \/ \E t \in Pending : GroupMessageSendRead(t)
  \/ \E t \in Pending : GroupMessageSendCreated(t)
  \/ \E t \in Pending : StoreSaveGroup(t)
  \/ \E t \in Pending : MessageReactRead(t)
  \/ \E t \in Pending : MessageReactDone(t)

SpecReact == InitPair /\ [][NextReact]_vars

\* ---------------------------------------------------------------- edits
\* A and B exchange direct and group messages and edit them while time passes
NextEdit ==
  \/ Tick
  \/ \E s \in Sockets, r \in Users : MessageSend(s, r, "hi")
  \/ \E s \in Sockets, g \in Groups \cup {NoGroup} : GroupMessageSend(s, g, "hi")
  \/ \E s \in Sockets, m \in EventMessageIds : MessageEdit(s, m, "new")
  \/ \E t \in Pending : StoreCreateMessage(t)
  \/ \E t \in Pending : StoreSave(t)
  \/ \E t \in Pending : MessageSendResume(t)
  \/ \E t \in Pending : MessageSendDone(t)
  \/ \E t \in Pending : GroupMessageSendResume(t)
  \/ \E t \in Pending : GroupMessageSendRead(t)
  \/ \E t \in Pending : GroupMessageSendCreated(t)
  \/ \E t \in Pending : StoreSaveGroup(t)
  \/ \E t \in Pending : MessageEditRead(t)
  \/ \E t \in Pending : MessageEditDone(t)

SpecEdit == InitPair /\ [][NextEdit]_vars

\* ---------------------------------------------------------------- deletions
\* A and B exchange direct and group messages and delete them; time passes between the
\* handlers
NextDelete ==
  \/ Idle /\ Tick
  \/ \E s \in Sockets, r \in Users : MessageSend(s, r, "hi")
  \/ \E s \in Sockets, g \in Groups \cup {NoGroup} : GroupMessageSend(s, g, "hi")
  \/ \E s \in Sockets, m \in EventMessageIds, deleteType \in DeleteTypes : MessageDelete(s, m, deleteType)
  \/ \E t \in Pending : StoreCreateMessage(t)
  \/ \E t \in Pending : StoreSave(t)
  \/ \E t \in Pending : MessageSendResume(t)
  \/ \E t \in Pending : MessageSendDone(t)
  \/ \E t \in Pending : GroupMessageSendResume(t)
  \/ \E t \in Pending : GroupMessageSendRead(t)
  \/ \E t \in Pending : GroupMessageSendCreated(t)
  \/ \E t \in Pending : StoreSaveGroup(t)
  \/ \E t \in Pending : MessageDeleteRead(t)
  \/ \E t \in Pending : MessageDeleteDone(t)

SpecDelete == InitPair /\ [][NextDelete]_vars

\* ---------------------------------------------------------------- delivery
\* messages are sent while connections open and close
NextSend ==
  \/ \E cred \in Credentials : Handshake(cred)
  \/ \E s \in Sockets : Disconnect(s)
  \/ \E s \in Sockets, r \in Users, content \in Contents : MessageSend(s, r, content)
  \/ \E t \in Pending : StoreCreateMessage(t)
  \/ \E t \in Pending : StoreSave(t)
  \/ \E t \in Pending : MessageSendResume(t)
  \/ \E t \in Pending : MessageSendDone(t)

SpecSend == InitPair /\ [][NextSend]_vars

\* ---------------------------------------------------------------- rejected events
\* A or B sends one message, which is edited while time passes; reactions name a message
\* that does not exist; A and B call each other and C, who is offline; call:accept names
\* calls that do not exist; an event arrives when the handlers of the events before it
\* have ended
NextErrors ==
  \/ Idle /\ Tick
  \/ \E s \in Sockets, r \in Users : Idle /\ messages = << >> /\ MessageSend(s, r, "hi")
  \/ \E s \in Sockets, g \in Groups \cup {NoGroup} : Idle /\ messages = << >> /\ GroupMessageSend(s, g, "hi")
  \/ \E s \in Sockets, m \in EventMessageIds : Idle /\ MessageEdit(s, m, "new")
  \/ \E s \in Sockets : Idle /\ MessageReact(s, Len(messages) + 1, "heart")
  \/ \E s \in Sockets, r \in Users : Idle /\ CallInitiate(s, r) /\ (Len(calls) = 0 \/ tasks' = tasks)
  \/ \E s \in Sockets, c \in EventCallIds : Idle /\ CallAccept(s, c) /\ tasks' = tasks
  \/ \E t \in Pending : StoreCreate(t)
  \/ \E t \in Pending : CallInitiateResume(t)
  \/ \E t \in Pending : StoreCreateMessage(t)
  \/ \E t \in Pending : StoreSave(t)
  \/ \E t \in Pending : MessageSendResume(t)
  \/ \E t \in Pending : MessageSendDone(t)
  \/ \E t \in Pending : GroupMessageSendResume(t)
  \/ \E t \in Pending : GroupMessageSendRead(t)
  \/ \E t \in Pending : GroupMessageSendCreated(t)
  \/ \E t \in Pending : StoreSaveGroup(t)
  \/ \E t \in Pending : MessageEditRead(t)
  \/ \E t \in Pending : MessageEditDone(t)
  \/ \E t \in Pending : MessageReactRead(t)

SpecErrors == InitPair /\ [][NextErrors]_vars

\* ---------------------------------------------------------------- handshakes
\* connections are requested with good and bad credentials and closed again, and one
\* message is sent
NextHandshake ==
  \/ \E cred \in Credentials : Handshake(cred)
  \/ \E s \in Sockets : Disconnect(s)
  \/ \E s \in Sockets, r \in Users : Idle /\ messages = << >> /\ MessageSend(s, r, "hi")
  \/ \E t \in Pending : StoreCreateMessage(t)
  \/ \E t \in Pending : StoreSave(t)
  \/ \E t \in Pending : MessageSendResume(t)
  \/ \E t \in Pending : MessageSendDone(t)

SpecHandshake == Init /\ [][NextHandshake]_vars

\* ---------------------------------------------------------------- a call and a third user
\* A, B and C are connected; one call is initiated, and every connection sends
\* call:accept, call:reject, call:end and call:cancel for it
NextThird ==
  \/ \E s \in Sockets, r \in Users : CallInitiate(s, r) /\ (Len(calls) + PendingCreates = 0 \/ tasks' = tasks)
  \/ \E s \in Sockets, c \in EventCallIds : CallAccept(s, c)
  \/ \E s \in Sockets, c \in EventCallIds : CallReject(s, c)
  \/ \E s \in Sockets, c \in EventCallIds : CallEnd(s, c)
  \/ \E s \in Sockets, c \in EventCallIds : CallCancel(s, c)
  \/ \E t \in Pending : StoreCreate(t)
  \/ \E t \in Pending : StoreUpdate(t)
  \/ \E t \in Pending : CallInitiateResume(t)
  \/ \E t \in Pending : CallAcceptResume(t)
  \/ \E t \in Pending : CallAcceptNotify(t)
  \/ \E t \in Pending : CallRejectResume(t)
  \/ \E t \in Pending : CallEndResume(t)
  \/ \E t \in Pending : CallCancelResume(t)

SpecThird == InitTrio /\ [][NextThird]_vars

\* ---------------------------------------------------------------- a call that lasts
\* A and B are connected; one call is initiated, accepted and ended while the clock runs
NextDuration ==
  \/ Idle /\ Tick
  \/ \E s \in Sockets, r \in Users : CallInitiate(s, r) /\ (Len(calls) + PendingCreates = 0 \/ tasks' = tasks)
  \/ \E s \in Sockets, c \in EventCallIds : CallAccept(s, c)
  \/ \E s \in Sockets, c \in EventCallIds : CallEnd(s, c)
  \/ \E t \in Pending : StoreCreate(t)
  \/ \E t \in Pending : StoreUpdate(t)
  \/ \E t \in Pending : CallInitiateResume(t)
  \/ \E t \in Pending : CallAcceptResume(t)
  \/ \E t \in Pending : CallAcceptNotify(t)
  \/ \E t \in Pending : CallEndResume(t)

SpecDuration == InitPair /\ [][NextDuration]_vars

\* ---------------------------------------------------------------- hanging up
\* A and B are connected; one call is initiated, accepted, rejected and ended, and
\* connections close
NextHangup ==
  \/ \E s \in Sockets : Disconnect(s)
  \/ \E s \in Sockets, r \in Users : CallInitiate(s, r) /\ (Len(calls) + PendingCreates = 0 \/ tasks' = tasks)
  \/ \E s \in Sockets, c \in EventCallIds : CallAccept(s, c)
  \/ \E s \in Sockets, c \in EventCallIds : CallReject(s, c)
  \/ \E s \in Sockets, c \in EventCallIds : CallEnd(s, c)
  \/ \E t \in Pending : StoreCreate(t)
  \/ \E t \in Pending : StoreUpdate(t)
  \/ \E t \in Pending : CallInitiateResume(t)
  \/ \E t \in Pending : CallAcceptResume(t)
  \/ \E t \in Pending : CallAcceptNotify(t)
  \/ \E t \in Pending : CallRejectResume(t)
  \/ \E t \in Pending : CallEndResume(t)

SpecHangup == InitPair /\ [][NextHangup]_vars

\* ---------------------------------------------------------------- read receipts
\* A and B are connected; one message is sent, and both mark it, or all messages of a
\* sender, as read while the clock runs
NextRead ==
  \/ Idle /\ Tick
  \/ \E s \in Sockets, r \in Users : messages = << >> /\ MessageSend(s, r, "hi")
  \/ \E s \in Sockets, m \in EventMessageIds, senderId \in {"A", "B"} : MessageRead(s, m, senderId)
  \/ \E s \in Sockets, senderId \in {"A", "B"} : MessagesRead(s, senderId)
  \/ \E t \in Pending : StoreCreateMessage(t)
  \/ \E t \in Pending : StoreSave(t)
  \/ \E t \in Pending : StoreUpdateMessage(t)
  \/ \E t \in Pending : StoreUpdateMany(t)
  \/ \E t \in Pending : MessageSendResume(t)
  \/ \E t \in Pending : MessageSendDone(t)
  \/ \E t \in Pending : MessageReadDone(t)
  \/ \E t \in Pending : MessagesReadDone(t)

SpecRead == InitPair /\ [][NextRead]_vars

\* ---------------------------------------------------------------- addressees
\* A and B are connected and send messages to users and to an id that no user has,
\* while connections close
NextAddress ==
  \/ \E s \in Sockets : Disconnect(s)
  \/ \E s \in Sockets, r \in Users \cup {UnknownUser}, content \in Contents : MessageSend(s, r, content)
  \/ \E t \in Pending : StoreCreateMessage(t)
  \/ \E t \in Pending : StoreSave(t)
  \/ \E t \in Pending : MessageSendResume(t)
  \/ \E t \in Pending : MessageSendDone(t)

SpecAddress == InitPair /\ [][NextAddress]_vars

\* ---------------------------------------------------------------- edits and deletions
\* A and B are connected; one message is sent, edited and deleted for everyone
NextRedact ==
  \/ \E s \in Sockets, r \in Users : messages = << >> /\ MessageSend(s, r, "hi")
  \/ \E s \in Sockets, m \in EventMessageIds : MessageEdit(s, m, "new")
  \/ \E s \in Sockets, m \in EventMessageIds : MessageDelete(s, m, "everyone")
  \/ \E t \in Pending : StoreCreateMessage(t)
  \/ \E t \in Pending : StoreSave(t)
  \/ \E t \in Pending : MessageSendResume(t)
  \/ \E t \in Pending : MessageSendDone(t)
  \/ \E t \in Pending : MessageEditRead(t)
  \/ \E t \in Pending : MessageEditDone(t)
  \/ \E t \in Pending : MessageDeleteRead(t)
  \/ \E t \in Pending : MessageDeleteDone(t)

SpecRedact == InitPair /\ [][NextRedact]_vars

\* ---------------------------------------------------------------- store failures
\* A and B are connected; one call is initiated and accepted, rings out or loses a
\* participant, and any of the store requests may fail
NextFailure ==
  \/ \E s \in Sockets : Disconnect(s)
  \/ \E s \in Sockets, r \in Users : CallInitiate(s, r) /\ (Len(calls) + PendingCreates = 0 \/ tasks' = tasks)
  \/ \E s \in Sockets, c \in EventCallIds : CallAccept(s, c)
  \/ \E tm \in timers : TimeoutFire(tm)
  \/ \E t \in Pending : StoreCreate(t)
  \/ \E t \in Pending : StoreUpdate(t)
  \/ \E t \in Pending : StoreFail(t)
  \/ \E t \in Pending : CallInitiateResume(t)
  \/ \E t \in Pending : TimeoutResume(t)
  \/ \E t \in Pending : CallAcceptResume(t)
  \/ \E t \in Pending : CallAcceptNotify(t)

SpecFailure == InitPair /\ [][NextFailure]_vars

\* ---------------------------------------------------------------- groups
\* A, B and C are connected; members are added and removed and posting is restricted
\* and opened again while one message is sent to the group, connections join and leave
\* the room of the group, and connections close; one handler runs at a time
NextGroup ==
  \/ \E s \in Sockets : Disconnect(s)
  \/ \E s \in Sockets, g \in Groups \cup {NoGroup} :
       Idle /\ messages = << >> /\ GroupMessageSend(s, g, "hi")
  \/ \E s \in Sockets, g \in Groups : Idle /\ GroupJoin(s, g)
  \/ \E s \in Sockets, g \in Groups : s \in rooms[g] /\ GroupLeave(s, g)
  \/ \E actor \in Users, g \in Groups, memberId \in Users : RemoveMember(actor, g, memberId)
  \/ \E actor \in Users, g \in Groups, memberId \in Users : AddMembers(actor, g, memberId)
  \/ \E actor \in Users, g \in Groups, b \in BOOLEAN : UpdateGroup(actor, g, b)
  \/ \E t \in Pending : StoreCreateMessage(t)
  \/ \E t \in Pending : StoreSaveGroup(t)
  \/ \E t \in Pending : GroupMessageSendRead(t)
  \/ \E t \in Pending : GroupMessageSendCreated(t)
  \/ \E t \in Pending : GroupMessageSendResume(t)
  \/ \E t \in Pending : GroupJoinRead(t)

SpecGroup == InitTrio /\ [][NextGroup]_vars

\* ---------------------------------------------------------------- signalling
\* A and B are connected; one call is initiated and accepted, offers, answers and
\* candidates are sent to A, to B, to C who is not connected and to an unknown user,
\* and connections close
NextRelay ==
  \/ \E s \in Sockets : Disconnect(s)
  \/ \E s \in Sockets, r \in Users : CallInitiate(s, r) /\ (Len(calls) + PendingCreates = 0 \/ tasks' = tasks)
  \/ \E s \in Sockets, c \in EventCallIds : CallAccept(s, c)
  \/ \E t \in Pending : StoreCreate(t)
  \/ \E t \in Pending : StoreUpdate(t)
  \/ \E t \in Pending : CallInitiateResume(t)
  \/ \E t \in Pending : CallAcceptResume(t)
  \/ \E t \in Pending : CallAcceptNotify(t)
  \/ \E s \in Sockets, c \in EventCallIds, d \in SignalData, u \in Users \cup {UnknownUser} :
       WebrtcOffer(s, c, d, u)
  \/ \E s \in Sockets, c \in EventCallIds, d \in SignalData, u \in Users \cup {UnknownUser} :
       WebrtcAnswer(s, c, d, u)
  \/ \E s \in Sockets, c \in EventCallIds, d \in SignalData, u \in Users \cup {UnknownUser} :
       WebrtcIceCandidate(s, c, d, u)

SpecRelay == InitPair /\ [][NextRelay]_vars

\* ---------------------------------------------------------------- a second connection
\* A and B are connected; users open further connections, one call is initiated and
\* accepted, and connections close
NextReconnect ==
  \/ \E cred \in Credentials : Handshake(cred)
  \/ \E s \in Sockets : Disconnect(s)
  \/ \E s \in Sockets, r \in Users : CallInitiate(s, r) /\ (Len(calls) + PendingCreates = 0 \/ tasks' = tasks)
  \/ \E s \in Sockets, c \in EventCallIds : CallAccept(s, c)
  \/ \E t \in Pending : StoreCreate(t)
  \/ \E t \in Pending : StoreUpdate(t)
  \/ \E t \in Pending : CallInitiateResume(t)
  \/ \E t \in Pending : CallAcceptResume(t)
  \/ \E t \in Pending : CallAcceptNotify(t)

SpecReconnect == InitPair /\ [][NextReconnect]_vars

\* ================================================================ claims
\* the users that have at least one open connection
Connected == {conns[s] : s \in open}

\* the key set of the Map onlineUsers
OnlineKeys == {u \in Users : onlineUsers[u] # NoSocket}

\* the sessions of the registry that list u as a participant
SessionsOf(u) ==
  {c \in DOMAIN activeCalls :
     activeCalls[c].participants[1] = u \/ activeCalls[c].participants[2] = u}

Terminal == {"ended", "missed", "rejected"}

\* C1: no user is a participant of more than one session of the active-call registry
C1_OneSessionPerUser == \A u \in Users : Cardinality(SessionsOf(u)) <= 1

\* C5: the key set of onlineUsers is exactly the set of users with an open connection
C5_OnlineIsConnected == OnlineKeys = Connected

\* the position of a status on ringing -> ongoing -> {ended, missed, rejected}
Rank(status) == IF status = "ringing" THEN 0 ELSE IF status = "ongoing" THEN 1 ELSE 2

\* C2: the persisted status of a Call record never moves back from a later stage of
\* ringing -> ongoing -> {ended, missed, rejected} to an earlier one
C2_StatusMonotonic ==
  [][\A c \in DOMAIN calls : Rank(calls'[c].status) >= Rank(calls[c].status)]_vars

\* C3: a ring timeout that fires when the persisted call has left ringing does nothing:
\* it sends no store request, deletes no session and emits nothing
C3_LateTimeoutIsNoOp ==
  [][(last'.ev = "timer" /\ calls[last'.callId].status # "ringing")
       => (tasks' = tasks /\ calls' = calls /\ activeCalls' = activeCalls /\ emitted' = {})]_vars

\* the call c is persisted as missed, has no session, and call:missed was just sent to
\* the connection of its caller and to the connection of its receiver
MissedAndNotified(c) ==
  /\ c \in DOMAIN calls
  /\ calls[c].status = "missed"
  /\ c \notin DOMAIN activeCalls
  /\ \E s \in open : conns[s] = calls[c].caller /\ Emit(s, "call:missed", c) \in emitted
  /\ \E s \in open : conns[s] = calls[c].receiver /\ Emit(s, "call:missed", c) \in emitted

\* C4: a call that nobody accepts, rejects, cancels or ends and that no disconnect cuts
\* is eventually persisted as missed, removed from the registry, and both parties are
\* sent call:missed
C4_UnansweredBecomesMissed ==
  \A c \in CallIds : (c \in DOMAIN calls /\ calls[c].status = "ringing") ~> MissedAndNotified(c)

C4_Witness ==
  /\ last.ev = "resume" /\ last.kind = "timeout"
  /\ MissedAndNotified(last.callId)

\* C6: once a Call record is terminal, its status, endReason, endTime and endedBy are
\* never written again
C6_TerminalIsImmutable ==
  [][\A c \in DOMAIN calls :
       calls[c].status \in Terminal =>
         /\ calls'[c].status = calls[c].status
         /\ calls'[c].endReason = calls[c].endReason
         /\ calls'[c].endTime = calls[c].endTime
         /\ calls'[c].endedBy = calls[c].endedBy]_vars

\* C7: a call has an entry in the registry iff its persisted status is ringing or
\* ongoing; stated for the states in which no handler is suspended and no store request
\* is in flight, where every transition has run to its end
C7_RegistryMatchesRecords ==
  tasks = EmptyBag =>
    \A c \in DOMAIN calls :
      (c \in DOMAIN activeCalls) <=> (calls[c].status \in {"ringing", "ongoing"})

\* a store request that sets the record of c to ended / failed is in flight
FailedWriteInFlight(bag, c) ==
  \E t \in BagToSet(bag) :
    /\ t.callId = c /\ t.pc = "store"
    /\ "status" \in DOMAIN t.w /\ t.w.status = "ended"
    /\ "endReason" \in DOMAIN t.w /\ t.w.endReason = "failed"

\* the participant of session c that is not u, NoUser when both are u
OtherParticipant(c, u) ==
  IF activeCalls[c].participants[1] # u THEN activeCalls[c].participants[1]
  ELSE IF activeCalls[c].participants[2] # u THEN activeCalls[c].participants[2]
  ELSE NoUser

\* C8: the disconnect of a connection of user U removes every session that contains U,
\* sends the store the update ended / failed for each of them, which sets the record
\* when it is applied, and sends call:ended with reason disconnected to the other
\* participant of each when that participant is online; no session contains U afterwards
C8_DisconnectEndsCalls ==
  [][/\ (last'.ev = "event" /\ last'.kind = "disconnect") =>
          /\ \A c \in DOMAIN activeCalls' :
                activeCalls'[c].participants[1] # last'.recv /\ activeCalls'[c].participants[2] # last'.recv
          /\ \A c \in SessionsOf(last'.recv) :
                /\ c \notin DOMAIN activeCalls'
                /\ FailedWriteInFlight(tasks', c)
                /\ LET o == OtherParticipant(c, last'.recv) IN
                     (o # NoUser /\ onlineUsers[o] # NoSocket) =>
                        EmitR(onlineUsers[o], "call:ended", c, "disconnected") \in emitted'
     /\ (last'.ev = "store" /\ last'.kind = "ff") =>
          /\ calls'[last'.callId].status = "ended"
          /\ calls'[last'.callId].endReason = "failed"]_vars

C8_Witness ==
  /\ last.ev = "event" /\ last.kind = "disconnect"
  /\ \E c \in CallIds : FailedWriteInFlight(tasks, c)
                         /\ \E e \in emitted : e.ev = "call:ended" /\ e.callId = c /\ e.reason = "disconnected"

\* C9: call:initiate to an online, idle receiver creates a ringing record and a session
\* of caller and receiver and sends call:incoming to the receiver and call:initiated to
\* the caller; the update of call:accept makes the record ongoing with a startTime, and
\* the caller is sent call:accepted
C9_InitiateThenAccept ==
  [][/\ (last'.ev = "resume" /\ last'.kind = "call:initiate") =>
          LET c == last'.callId IN
            /\ calls'[c].status = "ringing"
            /\ c \in DOMAIN activeCalls'
            /\ activeCalls'[c].participants = <<conns[last'.sock], last'.recv>>
            /\ Emit(last'.sock, "call:initiated", c) \in emitted'
            /\ onlineUsers[last'.recv] # NoSocket =>
                  Emit(onlineUsers[last'.recv], "call:incoming", c) \in emitted'
     /\ (last'.ev = "store" /\ last'.kind = "call:accept") =>
          /\ calls'[last'.callId].status = "ongoing"
          /\ calls'[last'.callId].startTime # NoTime
     /\ (last'.ev = "notify" /\ last'.kind = "call:accept") =>
          LET a == calls[last'.callId].caller IN
            onlineUsers[a] # NoSocket => Emit(onlineUsers[a], "call:accepted", last'.callId) \in emitted']_vars

C9_Witness ==
  /\ last.ev = "notify" /\ last.kind = "call:accept"
  /\ calls[last.callId].status = "ongoing"
  /\ calls[last.callId].caller = "A" /\ calls[last.callId].receiver = "B"
  /\ conns[last.sock] = "B"
  /\ Emit(onlineUsers["A"], "call:accepted", last.callId) \in emitted

\* C10: call:initiate to a receiver who is offline or is a participant of a session
\* emits call:error to the sender only, starts no Call.create and leaves the records and
\* the registry as they are
C10_RefusedInitiate ==
  [][(/\ last'.ev = "event" /\ last'.kind = "call:initiate"
      /\ (onlineUsers[last'.recv] = NoSocket \/ SessionsOf(last'.recv) # {}))
       => /\ emitted' = {Emit(last'.sock, "call:error", NoCall)}
          /\ tasks' = tasks
          /\ calls' = calls
          /\ activeCalls' = activeCalls]_vars

C10_Witness ==
  /\ last.ev = "event" /\ last.kind = "call:initiate"
  /\ onlineUsers[last.recv] # NoSocket
  /\ SessionsOf(last.recv) # {}
  /\ emitted = {Emit(last.sock, "call:error", NoCall)}

\* C11: every session of the registry has exactly two participants, who are two different
\* users: the caller and the receiver of its Call record
C11_TwoDistinctParticipants ==
  \A c \in DOMAIN activeCalls :
    /\ Len(activeCalls[c].participants) = 2
    /\ activeCalls[c].participants[1] # activeCalls[c].participants[2]
    /\ activeCalls[c].participants = <<calls[c].caller, calls[c].receiver>>

\* the entries of user u in a reactions array
ReactionsOf(reactions, u) == {i \in 1..Len(reactions) : reactions[i].userId = u}

\* C12: the reactions of every message hold at most one entry per user, whatever
\* message:react events were received and however their handlers interleaved
C12_OneReactionPerUser ==
  \A m \in DOMAIN messages : \A u \in Users :
    Cardinality(ReactionsOf(messages[m].reactions, u)) <= 1

C12_Witness ==
  \E m \in DOMAIN messages :
    /\ Len(messages[m].reactions) = 2
    /\ \E t \in Pending : t.kind = "message:react" /\ t.pc = "failed"

\* a reactions array without the entries of user u
WithoutUser(reactions, u) == SelectSeq(reactions, LAMBDA r : r.userId # u)

\* the save of message:react by user u with emoji e is applied to message m
ReactionSaved(t) ==
  /\ t.kind = "message:react"
  /\ StoreSave(t)
  /\ messages' # messages

\* C13: when the user holds no reaction on the message, the save of message:react adds
\* the reaction; when the user holds exactly this reaction, the save of the next
\* message:react with the same emoji removes it, and what it persists is the array from
\* before the first of the two
C13_ReactTwiceRestores ==
  [][\A t \in Pending : ReactionSaved(t) =>
       LET before == messages[t.w.msgId].reactions
           after == messages'[t.w.msgId].reactions
           u == conns[t.sock]
           entry == [userId |-> u, emoji |-> t.w.emoji] IN
         /\ ReactionsOf(before, u) = {} =>
              /\ after = Append(before, entry)
              /\ WithoutUser(after, u) = before
         /\ (\E i \in ReactionsOf(before, u) : before[i] = entry) =>
              after = WithoutUser(before, u)]_vars

C13_Witness ==
  /\ last.ev = "store" /\ last.kind = "message:react"
  /\ \E m \in DOMAIN messages : messages[m].reactions = << >> /\ messages[m].v = 2

\* the handler t ends at this step with the error event ev to its own connection, and
\* sends the store nothing
Rejected(t, ev) ==
  /\ emitted' = {EmitM(t.sock, ev, NoMessage, Null)}
  /\ tasks' = tasks (-) SetToBag({t})
  /\ messages' = messages

\* the handler t sends the store a save of message m that sets the fields of `set`
SaveSent(t, m, set) ==
  /\ \A e \in emitted' : e.ev # "message:error"
  /\ \E t2 \in BagToSet(tasks') :
       /\ t2.kind = t.kind /\ t2.sock = t.sock /\ t2.pc = "save"
       /\ t2.w.msgId = m
       /\ \A f \in DOMAIN set : f \in DOMAIN t2.w.set /\ t2.w.set[f] = set[f]

\* C14: message:edit goes through iff the message exists, the actor is its sender and at
\* most 15 minutes have passed since it was created, for direct and for group messages;
\* otherwise message:error is emitted to the actor and nothing is saved; the save sets the
\* new content, isEdited and editedAt
C14_EditIffSenderInWindow ==
  [][\A t \in Pending : MessageEditRead(t) =>
       LET m == t.w.msgId IN
         IF /\ m \in DOMAIN messages
            /\ messages[m].sender = conns[t.sock]
            /\ now - messages[m].createdAt <= fifteenMinutes
           THEN SaveSent(t, m, [content |-> t.w.content, isEdited |-> TRUE])
           ELSE Rejected(t, "message:error")]_vars

\* C15: message:delete with scope everyone goes through iff the message exists, the actor
\* is its sender and at most 1 hour has passed since it was created; the save sets the
\* placeholder content and deletedForEveryone; otherwise message:error is emitted to the
\* actor and nothing is saved
C15_DeleteIffSenderInWindow ==
  [][\A t \in Pending : (MessageDeleteRead(t) /\ t.w.deleteType = "everyone") =>
       LET m == t.w.msgId IN
         IF /\ m \in DOMAIN messages
            /\ messages[m].sender = conns[t.sock]
            /\ now - messages[m].createdAt <= oneHour
           THEN SaveSent(t, m, [content |-> Placeholder, deletedForEveryone |-> TRUE])
           ELSE Rejected(t, "message:error")]_vars

\* C16: when message:send finds a presence entry of the receiver, the message:receive
\* event sent to that connection carries the message with status delivered, the save
\* persists status delivered, and the sender is sent message:sent
C16_DeliveredToOnlineReceiver ==
  [][\A t \in Pending :
       /\ (MessageSendResume(t) /\ onlineUsers[t.w.receiver] # NoSocket) =>
            EmitM(onlineUsers[t.w.receiver], "message:receive", t.w.msgId, "delivered") \in emitted'
       /\ (t.kind = "message:send" /\ StoreSave(t)) =>
            messages'[t.w.msgId].status = "delivered"
       /\ MessageSendDone(t) =>
            \E e \in emitted' : e.to = t.sock /\ e.ev = "message:sent" /\ e.msgId = t.w.msgId]_vars

ErrorEvents == {"message:error", "reaction:error", "call:error"}

\* C17: a step that reports an error emits to the connection of the rejected event only,
\* closes no connection and leaves the presence map as it is
C17_ErrorsToOriginOnly ==
  [][(\E e \in emitted' : e.ev \in ErrorEvents) =>
       /\ \A e \in emitted' : e.to = last'.sock
       /\ open' = open
       /\ onlineUsers' = onlineUsers]_vars

\* message:edit by the sender of a message older than 15 minutes was just rejected while
\* another connection is open
C17_Witness ==
  /\ last.ev = "resume" /\ last.kind = "message:edit"
  /\ emitted = {EmitM(last.sock, "message:error", NoMessage, Null)}
  /\ last.sock \in open /\ open # {last.sock}
  /\ onlineUsers[conns[last.sock]] = last.sock
  /\ \E m \in DOMAIN messages :
       /\ messages[m].sender = conns[last.sock]
       /\ messages[m].receiver # NoUser
       /\ now - messages[m].createdAt > fifteenMinutes

\* a credential that is absent, invalid, or names no stored user
BadCredential(cred) == cred.token # "valid" \/ cred.userId \notin Users

\* the sockets whose handshake was refused
Refused == {s \in DOMAIN conns : conns[s] = NoUser}

\* C18: a handshake with a bad credential registers no presence entry, opens no
\* connection and emits nothing (no user:online); a refused socket is never open or in
\* the presence map, and no event of it is handled
C18_BadCredentialRefused ==
  [][/\ \A cred \in Credentials :
          (BadCredential(cred) /\ Handshake(cred)) =>
             /\ onlineUsers' = onlineUsers
             /\ open' = open
             /\ emitted' = {}
             /\ Len(conns') \in Refused'
     /\ \A s \in Refused' : s \notin open' /\ \A u \in Users : onlineUsers'[u] # s
     /\ (last'.ev # "event" \/ last'.kind # "handshake") => last'.sock \notin Refused']_vars

\* a connection was refused and later events of the open connections were handled
C18_Witness ==
  /\ Refused # {}
  /\ last.ev = "notify" /\ last.kind = "message:send"
  /\ \E u \in Users : onlineUsers[u] # NoSocket

\* C19: once call:accept, call:reject, call:cancel or call:end has moved a session out of
\* ringing, or a disconnect has removed it, no ring timeout of that call is pending
C19_TimeoutCancelled ==
  [][/\ (last'.ev = "resume" /\ last'.kind \in {"call:accept", "call:reject", "call:cancel", "call:end"}) =>
          \A tm \in timers' : tm.callId # last'.callId
     /\ (last'.ev = "event" /\ last'.kind = "disconnect") =>
          \A c \in SessionsOf(last'.recv) : \A tm \in timers' : tm.callId # c]_vars

\* C20: call:accept for a session that is already ongoing sends the store nothing and
\* emits nothing, so the status and the startTime of the record stay and no call:accepted
\* follows; call:accept for a callId without a session emits call:error to the sender and
\* changes nothing
C20_AcceptOnlyWhenRinging ==
  [][(last'.ev = "event" /\ last'.kind = "call:accept") =>
       /\ calls' = calls /\ activeCalls' = activeCalls
       /\ (last'.callId \in DOMAIN activeCalls /\ activeCalls[last'.callId].status = "ongoing") =>
             tasks' = tasks /\ emitted' = {}
       /\ last'.callId \notin DOMAIN activeCalls =>
             tasks' = tasks /\ emitted' = {Emit(last'.sock, "call:error", NoCall)}]_vars

\* C21: call:accept, call:reject, call:end and call:cancel for a session of two users,
\* sent by a user who is neither of them, send the store nothing and notify nobody
C21_OnlyParticipantsAct ==
  [][(/\ last'.ev = "event"
      /\ last'.kind \in {"call:accept", "call:reject", "call:end", "call:cancel"}
      /\ last'.callId \in DOMAIN activeCalls
      /\ activeCalls[last'.callId].participants[1] # activeCalls[last'.callId].participants[2]
      /\ ~Includes(activeCalls[last'.callId].participants, conns[last'.sock]))
       => /\ tasks' = tasks
          /\ calls' = calls /\ activeCalls' = activeCalls
          /\ \A e \in emitted' : e.to = last'.sock]_vars

\* C22: call:cancel sends the store the update ended / cancelled only when its sender is
\* the caller of the session and the session is still ringing; in particular not for a
\* session that is ongoing
C22_CancelOnlyByCallerWhileRinging ==
  [][(/\ last'.ev = "event" /\ last'.kind = "call:cancel"
      /\ last'.callId \in DOMAIN activeCalls
      /\ activeCalls[last'.callId].participants[1] # activeCalls[last'.callId].participants[2]
      /\ \/ activeCalls[last'.callId].status # "ringing"
         \/ conns[last'.sock] # activeCalls[last'.callId].caller)
       => tasks' = tasks]_vars

\* C23: when the update of call:end reaches the record of a call that was accepted, the
\* record's duration is the whole seconds between its startTime and its endTime
C23_DurationInWholeSeconds ==
  [][(/\ last'.ev = "store" /\ last'.kind = "call:end"
      /\ calls[last'.callId].startTime # NoTime)
       => calls'[last'.callId].duration
            = ((calls'[last'.callId].endTime - calls'[last'.callId].startTime) * msPerTick) \div 1000]_vars

\* C24: the update of call:end sets the record to ended / completed with an endTime and
\* the sender as endedBy, and the handler then sends call:ended to the other
\* participant when that user is online and removes the session; the update of
\* call:reject sets the record to rejected / rejected with an endTime, and the handler
\* then sends call:rejected to the caller when online and removes the session
C24_EndAndRejectEffects ==
  [][/\ (last'.ev = "store" /\ last'.kind = "call:end")
          => /\ calls'[last'.callId].status = "ended"
             /\ calls'[last'.callId].endReason = "completed"
             /\ calls'[last'.callId].endTime = now
             /\ calls'[last'.callId].endedBy = conns[last'.sock]
     /\ (last'.ev = "resume" /\ last'.kind = "call:end")
          => /\ last'.callId \notin DOMAIN activeCalls'
             /\ LET rec == calls[last'.callId]
                    other == IF rec.caller # conns[last'.sock] THEN rec.caller
                             ELSE IF rec.receiver # conns[last'.sock] THEN rec.receiver
                             ELSE NoUser IN
                  /\ (other # NoUser /\ onlineUsers[other] # NoSocket)
                       => Emit(onlineUsers[other], "call:ended", last'.callId) \in emitted'
                  /\ \A e \in emitted' : e.ev = "call:ended" /\ e.to = onlineUsers[other]
     /\ (last'.ev = "store" /\ last'.kind = "call:reject")
          => /\ calls'[last'.callId].status = "rejected"
             /\ calls'[last'.callId].endReason = "rejected"
             /\ calls'[last'.callId].endTime = now
     /\ (last'.ev = "resume" /\ last'.kind = "call:reject")
          => /\ last'.callId \notin DOMAIN activeCalls'
             /\ LET caller == calls[last'.callId].caller IN
                  /\ onlineUsers[caller] # NoSocket
                       => Emit(onlineUsers[caller], "call:rejected", last'.callId) \in emitted'
                  /\ \A e \in emitted' : e.ev = "call:rejected" /\ e.to = onlineUsers[caller]]_vars

\* B has ended the call that A started: the record is ended / completed by B, A was
\* sent call:ended and the session is gone
C24_Witness ==
  /\ last.ev = "resume" /\ last.kind = "call:end"
  /\ conns[last.sock] = "B"
  /\ calls[last.callId].caller = "A" /\ calls[last.callId].receiver = "B"
  /\ calls[last.callId].status = "ended" /\ calls[last.callId].endedBy = "B"
  /\ onlineUsers["A"] # NoSocket
  /\ Emit(onlineUsers["A"], "call:ended", last.callId) \in emitted
  /\ last.callId \notin DOMAIN activeCalls

MsgRank(status) == IF status = "sent" THEN 0 ELSE IF status = "delivered" THEN 1 ELSE 2

\* C25: the persisted status of a message only moves forward through sent, delivered,
\* read: no step takes a message that is read back to delivered or sent, or one that is
\* delivered back to sent
C25_MessageStatusForward ==
  [][\A m \in DOMAIN messages : MsgRank(messages'[m].status) >= MsgRank(messages[m].status)]_vars

\* C26: marking as read what is read already is a no-op: the update of message:read on a
\* message whose status is read changes no field of it, and the handler then sends no
\* message:status; messages:read with no unread message of that sender changes nothing
\* and sends no messages:read
C26_RereadIsNoOp ==
  [][\A t \in Pending :
       /\ (StoreUpdateMessage(t) /\ t.w.msgId \in DOMAIN messages /\ messages[t.w.msgId].status = "read")
            => messages' = messages
       /\ (MessageReadDone(t) /\ t.w.found = "read") => emitted' = {}
       /\ (StoreUpdateMany(t) /\ Unread(t.w.senderId, conns[t.sock]) = {}) => messages' = messages
       /\ (MessagesReadDone(t) /\ t.w.modifiedCount = 0) => emitted' = {}]_vars

\* C27: a message:send whose message is persisted ends with message:sent to the sender,
\* carrying the message with the status the handler stored last; with a presence entry of
\* the receiver message:receive goes to that socket and the handler's save sets the
\* stored status to delivered; without one no message:receive is emitted, the handler
\* sends the store nothing more and message:sent carries status sent
C27_SentAndDelivered ==
  [][\A t \in Pending :
       /\ (MessageSendResume(t) /\ GetOnline(t.w.receiver) # NoSocket)
            => /\ emitted' = {EmitM(onlineUsers[t.w.receiver], "message:receive", t.w.msgId, "sent")}
               /\ \E u \in BagToSet(tasks') :
                    /\ u.kind = "message:send" /\ u.pc = "save" /\ u.sock = t.sock
                    /\ u.w.msgId = t.w.msgId /\ u.w.set = [status |-> "delivered"]
       /\ (MessageSendResume(t) /\ GetOnline(t.w.receiver) = NoSocket)
            => /\ emitted' = {EmitM(t.sock, "message:sent", t.w.msgId, "sent")}
               /\ tasks' = Remove(t)
               /\ messages' = messages
       /\ (StoreSave(t) /\ t.kind = "message:send")
            => messages'[t.w.msgId].status = "delivered"
       /\ MessageSendDone(t)
            => /\ emitted' = {EmitM(t.sock, "message:sent", t.w.msgId, "delivered")}
               /\ messages' = messages]_vars

\* A's message to B, who was online, is stored as delivered and A is sent message:sent
C27_Witness ==
  /\ last.ev = "notify" /\ last.kind = "message:send"
  /\ Len(messages) = 1
  /\ messages[1].sender = "A" /\ messages[1].receiver = "B"
  /\ messages[1].status = "delivered"
  /\ EmitM(last.sock, "message:sent", 1, "delivered") \in emitted

\* C28: message:send that names a receiver who is no user is rejected: the sender is sent
\* message:error, no Message.create is started, and no message with that receiver is
\* stored or confirmed with message:sent
C28_UnknownReceiverRejected ==
  [][/\ (last'.ev = "event" /\ last'.kind = "message:send" /\ last'.recv \notin Users)
          => /\ tasks' = tasks
             /\ emitted' = {EmitM(last'.sock, "message:error", NoMessage, Null)}
     /\ \A m \in DOMAIN messages' : messages'[m].receiver \in Users
     /\ \A e \in emitted' : e.ev = "message:sent" => messages'[e.msgId].receiver \in Users]_vars

\* C29: message:delete with scope me by the sender or the receiver of a message goes
\* through: the handler sends the store a save that appends the marker of that user to
\* deletedBy and sets no other field, and then emits message:deleted to the requesting
\* connection only; being the sender is required for scope everyone only
C29_DeleteForMeByEitherUser ==
  [][\A t \in Pending :
       /\ (/\ MessageDeleteRead(t) /\ t.w.deleteType = "me"
           /\ t.w.msgId \in DOMAIN messages
           /\ conns[t.sock] \in {messages[t.w.msgId].sender, messages[t.w.msgId].receiver})
            => /\ \A e \in emitted' : e.ev # "message:error"
               /\ \E t2 \in BagToSet(tasks') :
                    /\ t2.kind = "message:delete" /\ t2.sock = t.sock /\ t2.pc = "save"
                    /\ t2.w.msgId = t.w.msgId
                    /\ t2.w.set = NoFields /\ t2.w.push = [deletedBy |-> conns[t.sock]]
       /\ (MessageDeleteDone(t) /\ t.w.deleteType = "me" /\ t.pc = "saved")
            => emitted' = {EmitM(t.sock, "message:deleted", t.w.msgId, Null)}]_vars

\* C30: a message that is deleted for everyone has the placeholder as its content, in
\* every state: no later message:edit changes it
C30_DeletedStaysPlaceholder ==
  \A m \in DOMAIN messages : messages[m].deletedForEveryone => messages[m].content = Placeholder

\* C31: each successful message:edit appends to the edit history the content the stored
\* message held immediately before that edit: when the save of an edit reaches the
\* store, the history grows by exactly the content it replaces
C31_EditHistoryInOrder ==
  [][\A t \in Pending :
       (StoreSave(t) /\ t.kind = "message:edit" /\ ~VersionConflict(messages[t.w.msgId], t.w))
         => messages'[t.w.msgId].editHistory
              = Append(messages[t.w.msgId].editHistory, messages[t.w.msgId].content)]_vars

\* C32: message:react by user U leaves the reactions of every other user on the message
\* as they are stored, also when two users react to the same message with handlers that
\* both read it before either saves: a save that is applied changes the entries of its
\* own user only, and a save that meets a newer version is refused, changes nothing and
\* ends in reaction:error to its own connection
C32_ReactLeavesOthersAlone ==
  [][\A t \in Pending :
       /\ (StoreSave(t) /\ t.kind = "message:react")
            => LET before == messages[t.w.msgId].reactions
                   after == messages'[t.w.msgId].reactions
                   u == conns[t.sock] IN
                 /\ WithoutUser(after, u) = WithoutUser(before, u)
                 /\ after # before => after = ToggleReaction(before, u, t.w.emoji)
       /\ (MessageReactDone(t) /\ t.pc = "failed")
            => emitted' = {EmitM(t.sock, "reaction:error", NoMessage, Null)}]_vars

\* A and B reacted to the same message at once: B's reaction is stored, and the save of
\* A, who read the message before, has just been refused
C32_Witness ==
  /\ last.ev = "store" /\ last.kind = "message:react"
  /\ conns[last.sock] = "A"
  /\ \E t \in Pending : t.kind = "message:react" /\ t.pc = "failed" /\ t.sock = last.sock
  /\ \E m \in DOMAIN messages :
       /\ Len(messages[m].reactions) = 1
       /\ messages[m].reactions[1].userId = "B"

\* C33: an inbound event that fails is answered with an error event to the connection
\* that sent it: call:reject, call:end and call:cancel that name a call without a
\* session emit call:error to the sender
C33_FailingEventReported ==
  [][(/\ last'.ev = "event"
      /\ last'.kind \in {"call:reject", "call:end", "call:cancel"}
      /\ last'.callId \notin DOMAIN activeCalls)
       => \E e \in emitted' : e.to = last'.sock /\ e.ev = "call:error"]_vars

\* C34: an event that ends in an error leaves the stored state as it was before the
\* event: a message:react handler that ends with reaction:error is one whose save was
\* not applied, for group messages as for direct ones
C34_ErrorLeavesStateUnchanged ==
  [][\A t \in Pending :
       (MessageReactDone(t) /\ \E e \in emitted' : e.ev = "reaction:error")
         => t.pc = "failed"]_vars

\* C35: a store request that fails is caught where it was made: the failure is reported
\* or logged by a catch, no rejection is left unhandled, and every connection that was
\* open stays open
C35_StoreFailureCaught ==
  [][\A t \in Pending : StoreFail(t) => (last'.ev = "caught" /\ open' = open)]_vars

\* the connections an event of the step is sent to
SentTo(ev) == {e.to : e \in {x \in emitted' : x.ev = ev}}

C37_NoTrafficOutsideRoom ==
  [][\A t \in Pending :
       GroupMessageSendResume(t) =>
         SentTo("group:message:receive") \subseteq rooms[t.w.groupId]]_vars

\* C38: a group:message:send whose sender is, in the store at the time of the read, not
\* a member, or not an admin while the group restricts posting to admins, ends with
\* message:error to the sender only: the handler is over, no message is created and the
\* group is as it was; a sender who may post in the stored group is not refused
C38_UnauthorisedSendRejected ==
  [][\A t \in Pending :
       (GroupMessageSendRead(t) /\ t.w.groupId \in Groups)
         => IF \/ conns[t.sock] \notin groups[t.w.groupId].members
               \/ /\ groups[t.w.groupId].onlyAdminsCanPost
                  /\ conns[t.sock] \notin groups[t.w.groupId].admins
              THEN /\ Rejected(t, "message:error")
                   /\ groups' = groups
              ELSE emitted' = {}]_vars

\* B, a member who could post when the group was created, is refused after posting was
\* restricted to admins
C38_Witness ==
  /\ last.ev = "resume" /\ last.kind = "group:message:send"
  /\ conns[last.sock] = "B"
  /\ "B" \in groups["G"].members
  /\ groups["G"].onlyAdminsCanPost
  /\ \E e \in emitted : e.ev = "message:error" /\ e.to = last.sock
  /\ messages = << >>
  /\ groups["G"].lastMessage = NoMessage

C39_WitnessOffline ==
  /\ last.ev = "event" /\ last.kind = "webrtc:ice-candidate"
  /\ last.recv = "C" /\ onlineUsers["C"] = NoSocket
  /\ emitted = {}

\* C40: when a user has two open connections and the one that presence does not hold
\* for the user closes, none of the user's call sessions is ended and nobody is sent
\* call:ended
C40_StaleDisconnectKeepsSessions ==
  [][\A s \in Sockets :
       (/\ Disconnect(s)
        /\ onlineUsers[conns[s]] # s
        /\ onlineUsers[conns[s]] \in open
        /\ conns[onlineUsers[conns[s]]] = conns[s])
         => /\ activeCalls' = activeCalls
            /\ \A e \in emitted' : e.ev # "call:ended"]_vars
====
